---- MODULE Spec2Model ----
(***************************************************************************)
(* MeetingBrain processing pipeline: the three edge functions              *)
(* (transcribe-meeting, analyze-meeting, link-to-graph) as server-side     *)
(* runs over one meeting's rows, and the mobile client that drives them    *)
(* (uploadMeetingAudio, ProcessingScreen, callEdgeFunction and the three   *)
(* trigger functions).                                                     *)
(*                                                                         *)
(* A run is one invocation of an edge function.  Its steps are the points  *)
(* at which it reads or writes the store; the calls it makes to the AI     *)
(* gateway between two store accesses touch no shared state and are folded *)
(* into the store access that follows them.                                *)
(***************************************************************************)
EXTENDS Integers, Sequences, FiniteSets, TLC

\* ------------------------------------------------------------------ bounds
MaxRuns == 2          \* edge-function invocations in one behaviour of SpecStage
MaxCalls == 3         \* edge-function invocations in one behaviour of Spec
MaxRetry == 1         \* presses of the Retry button

\* --------------------------------------------------------- program constants
INLINE_LIMIT == 4 * 1024 * 1024     \* transcribe-meeting: inline / File API threshold
SUMMARY_PREFIX == 500               \* analyze-meeting: rawText.substring(0, 500)
maxRetries == 3                     \* callEdgeFunction default
POLL_LIMIT == 30                    \* transcribe-meeting: passes of the readiness loop
SIMILARITY_THRESHOLD == 65          \* link-to-graph: 0.65, in hundredths
MAX_RELATED == 5                    \* link-to-graph
RESOLVES_ABOVE == 85                \* link-to-graph: similarity > 0.85, in hundredths
ID_STRIDE == 100                    \* node ids: run * ID_STRIDE + position in the batch
DEFAULT_SUMMARY_LEN == 20           \* "No summary generated".length

Stages == {"transcribe", "analyze", "link"}
Statuses == {"recording", "processing", "analyzing", "linking", "done", "failed"}

VARIABLES
    exists,                 \* the meetings row of this meeting is present
    status,                 \* meetings.status
    audio_path,             \* meetings.audio_path: "null" or "path"
    transcripts,            \* rows of table transcripts for the meeting, in insertion order
    meeting_notes,          \* rows of table meeting_notes for the meeting
    action_items,           \* rows of table action_items for the meeting
    nodes,                  \* rows of table nodes (set of records)
    edges,                  \* rows of table edges (set of records)
    runs,                   \* server side: run id -> state of that edge-function run
    nRuns,                  \* number of runs started so far
    screen,                 \* client: position of the recording / processing screens
    seen,                   \* client: meeting?.status as last returned by the query
    transcriptionTriggered, \* client: the three guard refs of ProcessingScreen
    analysisTriggered,
    linkingTriggered,
    trig,                   \* client: trigger id -> state of one triggerX() call
    nTrig,                  \* number of trigger calls started so far
    retries,                \* number of Retry presses so far
    lastNote,               \* history: the row of the last note write the store applied
    writer,                 \* history: who issued the last applied status write
    failedBy                \* history: while the status is failed, the stage that set it

store == <<exists, status, audio_path, transcripts, meeting_notes, action_items, nodes, edges>>
server == <<runs, nRuns>>
client == <<screen, seen, transcriptionTriggered, analysisTriggered, linkingTriggered,
            trig, nTrig, retries>>
hist == <<lastNote, writer, failedBy>>
vars == <<store, server, client, hist>>

\* ------------------------------------------------------------------ values
NoAnalysis == [ty |-> "none", summary |-> 0, items |-> "missing", list |-> << >>,
               decisions |-> 0, open_questions |-> 0]

NoRun == [stage |-> "none", pc |-> "free", err |-> "none", http |-> 0, error |-> "none",
          wrote |-> "none", applied |-> FALSE, trig |-> 0,
          genCalled |-> FALSE, fileUri |-> FALSE, cleaned |-> FALSE, rows |-> 0,
          len |-> 0, audioBase64 |-> FALSE, body |-> "none",
          polls |-> 0, fileState |-> "none",
          analysis |-> NoAnalysis, cand |-> << >>, inserted |-> << >>,
          edgeInsert |-> FALSE, meeting_id |-> "M", nodeIds |-> {}]

NoTrig == [stage |-> "none", pc |-> "free", attempt |-> 0, run |-> 0, retry |-> FALSE]

NoWriter == [stage |-> "none", kind |-> "none", retry |-> FALSE]

RunIds == 1..(IF MaxRuns > MaxCalls THEN MaxRuns ELSE MaxCalls)
TrigIds == 1..(3 + MaxRetry)

\* A handler returns its response in the step that builds it, so no other step falls
\* between a run reaching "resp" and Send.
Quiet == \A r \in RunIds : runs[r].pc # "resp"

\* The trigger call a run was started by carries whether the user's Retry started it.
ByRetry(r) == runs[r].trig # 0 /\ trig[runs[r].trig].retry

RunWriter(r) == [stage |-> runs[r].stage, kind |-> "run", retry |-> ByRetry(r)]

\* supabase.from("meetings").update({ status }).eq("id", meetingId): applied when the
\* row is there and the store accepts the write; the caller ignores the result.
UpdateStatus(val, ok, who) ==
    IF exists /\ ok
    THEN /\ status' = val
         /\ writer' = who
         /\ failedBy' = IF val = "failed" THEN who.stage ELSE "none"
    ELSE UNCHANGED <<status, writer, failedBy>>

\* throw new Error(cause) inside the handler's try block: control goes to its catch.
Throw(r, cause) == runs' = [runs EXCEPT ![r].pc = "catch", ![r].err = cause]

\* ------------------------------------------------- the environment
\* With no client attached (screen = "none") the endpoints are exercised on their own
\* and the store and the AI gateway may answer in every way modelled.  With the client
\* attached the store accepts the functions' calls on the relational tables and the
\* gateway either fails the generation call or answers with one representative text.
Orchestrated == screen # "none"

\* how the store may answer one call of an edge function: accepted or rejected
StoreAnswers == IF Orchestrated THEN {TRUE} ELSE BOOLEAN

\* ------------------------------------------------- transcribe-meeting
\* transcript text as its lines; a line is blank, "Speaker N: words", plain words, or
\* the token [inaudible]
LineKinds == {"blank", "spk", "plain", "inaud"}
Transcripts ==
    IF Orchestrated THEN { <<"spk", "plain">> }
    ELSE { << >>, <<"blank">>, <<"inaud">>, <<"blank", "inaud", "blank">>,
           <<"spk", "plain">>, <<"blank", "spk", "blank", "plain", "blank">>,
           <<"blank", "plain", "blank">> }

RECURSIVE DropBlankHead(_)
DropBlankHead(t) ==
    IF t = << >> THEN << >>
    ELSE IF Head(t) = "blank" THEN DropBlankHead(Tail(t)) ELSE t

Reverse(t) == [i \in 1..Len(t) |-> t[Len(t) + 1 - i]]

\* String.prototype.trim on the whole text removes the blank lines at both ends
TrimText(t) == Reverse(DropBlankHead(Reverse(DropBlankHead(t))))

Segment(b, line) ==
    [batch |-> b,
     speaker_label |-> IF line = "spk" THEN "Speaker N" ELSE "null",
     text |-> IF line = "inaud" THEN "[inaudible]" ELSE "words"]

RECURSIVE ParseLines(_, _)
ParseLines(b, t) ==
    IF t = << >> THEN << >>
    ELSE IF Head(t) = "blank" THEN ParseLines(b, Tail(t))
    ELSE <<Segment(b, Head(t))>> \o ParseLines(b, Tail(t))

Sentinel(b) == [batch |-> b, speaker_label |-> "null",
                text |-> "[No speech detected in this recording]"]

\* alternative: the emptiness and [inaudible] tests on the text as received
ParseTranscriptUntrimmed(b, t) ==
    LET parsed == IF t # << >> /\ t # <<"inaud">> THEN ParseLines(b, TrimText(t)) ELSE << >>
    IN IF Len(parsed) = 0 THEN <<Sentinel(b)>> ELSE parsed

\* lines 171-201; b numbers the insert the segments go into
ParseTranscript(b, t) ==
    LET parsed == IF TrimText(t) # << >> /\ TrimText(t) # <<"inaud">>
                  THEN ParseLines(b, TrimText(t)) ELSE << >>
    IN IF Len(parsed) = 0 THEN <<Sentinel(b)>> ELSE parsed

\* the inserts that put rows into transcripts so far
Batches(rows) == {rows[i].batch : i \in 1..Len(rows)}

AudioSizes == IF Orchestrated THEN {INLINE_LIMIT} ELSE {INLINE_LIMIT, INLINE_LIMIT + 1}
\* alternative: the resumable path already at the limit
UsesFileApiAtLimit(len) == len >= INLINE_LIMIT

\* line 63: the File API is used for payloads above the limit
UsesFileApi(len) == len > INLINE_LIMIT

\* the step at which the transfer / generation part fails, by transfer strategy
TransferFailures(len) ==
    IF Orchestrated THEN {"Gemini failed"}
    ELSE IF UsesFileApi(len)
    THEN {"Download failed", "File API start failed", "File upload failed",
          "No file URI", "Gemini failed"}
    ELSE {"Download failed", "Gemini failed"}

\* alternative: the fetch step without the audio_path requirement
TranscribeFetchAnyAudio(r) ==
    /\ Quiet
    /\ runs[r].stage = "transcribe" /\ runs[r].pc = "fetch"
    /\ \E rowOk \in StoreAnswers :
          IF ~exists \/ ~rowOk THEN Throw(r, "Not found")
          ELSE runs' = [runs EXCEPT ![r].pc = "work"]
    /\ UNCHANGED <<store, nRuns, client, hist>>

\* lines 34-43: fetch the meeting row, require audio_path
TranscribeFetch(r) ==
    /\ Quiet
    /\ runs[r].stage = "transcribe" /\ runs[r].pc = "fetch"
    /\ \E rowOk \in StoreAnswers :
          IF ~exists \/ ~rowOk THEN Throw(r, "Not found")
          ELSE IF audio_path = "null" THEN Throw(r, "No audio uploaded")
          ELSE runs' = [runs EXCEPT ![r].pc = "work"]
    /\ UNCHANGED <<store, nRuns, client, hist>>

\* lines 45-207: download, transfer, generation call, parsing, batch insert
TranscribeSave(r) ==
    /\ Quiet
    /\ runs[r].stage = "transcribe" /\ runs[r].pc = "work"
    /\ \E len \in AudioSizes :
          \/ \E cause \in TransferFailures(len) :
                /\ runs' = [runs EXCEPT ![r].pc = "catch", ![r].err = cause,
                                        ![r].fileUri = (UsesFileApi(len) /\ cause = "Gemini failed"),
                                        ![r].len = IF cause = "Download failed" THEN 0 ELSE len,
                                        ![r].audioBase64 = (~UsesFileApi(len) /\ cause = "Gemini failed"),
                                        ![r].genCalled = (cause = "Gemini failed")]
                /\ UNCHANGED transcripts
          \/ \E text \in Transcripts, insertOk \in StoreAnswers :
                IF insertOk /\ exists
                THEN LET segments == ParseTranscript(Cardinality(Batches(transcripts)) + 1, text)
                     IN /\ transcripts' = transcripts \o segments
                        /\ runs' = [runs EXCEPT ![r].pc = "status", ![r].genCalled = TRUE,
                                                ![r].fileUri = UsesFileApi(len),
                                                ![r].len = len,
                                                ![r].audioBase64 = ~UsesFileApi(len),
                                                ![r].rows = Len(segments)]
                ELSE /\ UNCHANGED transcripts
                     /\ runs' = [runs EXCEPT ![r].pc = "catch", ![r].err = "Insert failed",
                                             ![r].genCalled = TRUE,
                                             ![r].len = len,
                                             ![r].audioBase64 = ~UsesFileApi(len),
                                             ![r].fileUri = UsesFileApi(len)]
    /\ UNCHANGED <<exists, status, audio_path, meeting_notes, action_items, nodes, edges,
                   nRuns, client, hist>>

\* lines 209-227: status -> analyzing, delete the uploaded file, success response
TranscribeStatus(r) ==
    /\ Quiet
    /\ runs[r].stage = "transcribe" /\ runs[r].pc = "status"
    /\ \E ok \in StoreAnswers :
          /\ UpdateStatus("analyzing", ok, RunWriter(r))
          /\ runs' = [runs EXCEPT ![r].pc = "resp", ![r].http = 200,
                                  ![r].applied = (exists /\ ok),
                                  ![r].wrote = "analyzing",
                                  ![r].cleaned = runs[r].fileUri]
    /\ UNCHANGED <<exists, audio_path, transcripts, meeting_notes, action_items, nodes, edges,
                   nRuns, client, lastNote>>

\* alternative: a catch whose response reports the outcome of its own status write
TranscribeCatchMasking(r) ==
    /\ Quiet
    /\ runs[r].stage = "transcribe" /\ runs[r].pc = "catch"
    /\ \E ok \in StoreAnswers :
          /\ UpdateStatus("failed", ok, RunWriter(r))
          /\ runs' = [runs EXCEPT ![r].pc = "resp", ![r].http = 500,
                                  ![r].applied = (exists /\ ok),
                                  ![r].error = IF exists /\ ok THEN runs[r].err
                                               ELSE "Status update failed",
                                  ![r].wrote = "failed"]
    /\ UNCHANGED <<exists, audio_path, transcripts, meeting_notes, action_items, nodes, edges,
                   nRuns, client, lastNote>>

\* lines 228-236: catch: best-effort status -> failed, 500 response with the error
TranscribeCatch(r) ==
    /\ Quiet
    /\ runs[r].stage = "transcribe" /\ runs[r].pc = "catch"
    /\ \E ok \in StoreAnswers :
          /\ UpdateStatus("failed", ok, RunWriter(r))
          /\ runs' = [runs EXCEPT ![r].pc = "resp", ![r].http = 500,
                                  ![r].applied = (exists /\ ok),
                                  ![r].error = runs[r].err,
                                  ![r].wrote = "failed"]
    /\ UNCHANGED <<exists, audio_path, transcripts, meeting_notes, action_items, nodes, edges,
                   nRuns, client, lastNote>>

\* ------------------------------------------------- analyze-meeting
\* A generation response text: its length, whether it is wrapped in ``` fences, and the
\* JSON value its body denotes (ty "none": the body is not JSON text).  A JSON value is
\* null, a scalar, or an object with summary (its length, 0 when absent or empty),
\* action_items (absent, not an array, or an array), decisions and open_questions.
ItemValues == {[priority |-> "high", deadline |-> "2026-01-01"],
               [priority |-> "low", deadline |-> "2026-01-01"],
               [priority |-> "medium", deadline |-> "missing"],
               [priority |-> "missing", deadline |-> "null"],
               [priority |-> "urgent", deadline |-> "missing"]}

ItemLists == {<< >>} \cup {<<i>> : i \in ItemValues}

JsonObject(s, k, l, d, q) ==
    [ty |-> "object", summary |-> s, items |-> k, list |-> l, decisions |-> d,
     open_questions |-> q]

JsonValues ==
    {JsonObject(12, "array", l, 1, 0) : l \in ItemLists}
    \cup {JsonObject(0, "missing", << >>, 0, 1), JsonObject(12, "nonarray", << >>, 0, 0),
          [NoAnalysis EXCEPT !.ty = "null"], [NoAnalysis EXCEPT !.ty = "scalar"]}

RawText(n, f, v) == [len |-> n, fenced |-> f, json |-> v]

\* empty, short and long unparseable text, fenced unparseable text, and JSON text with
\* and without fences
RawTexts ==
    IF Orchestrated
    THEN {RawText(60, TRUE, JsonObject(12, "array", <<[priority |-> "urgent",
                                                        deadline |-> "missing"]>>, 1, 0))}
    ELSE
    {RawText(n, FALSE, NoAnalysis) : n \in {0, 7, SUMMARY_PREFIX + 1}}
    \cup {RawText(9, TRUE, NoAnalysis)}
    \cup {RawText(60, FALSE, v) : v \in JsonValues}
    \cup {RawText(60, TRUE, JsonObject(12, "array", << >>, 1, 0))}

\* rawText.replace(/```json\s*/gi, "").replace(/```\s*/g, "").trim()
StripFences(raw) == [raw EXCEPT !.fenced = FALSE]

\* JSON.parse throws on fenced text and on text that is not JSON
JsonParses(text) == ~text.fenced /\ text.json.ty # "none"

Min(a, b) == IF a < b THEN a ELSE b

\* lines 118-145: strip fences, parse, fall back to a prefix of the raw text
ParseAnalysis(raw) ==
    IF JsonParses(StripFences(raw)) THEN StripFences(raw).json
    ELSE [ty |-> "fallback", summary |-> Min(raw.len, SUMMARY_PREFIX),
          items |-> "array", list |-> << >>, decisions |-> 0, open_questions |-> 0]

\* line 147 reads analysis.summary: a TypeError when JSON.parse returned null
ReadsProperties(analysis) == analysis.ty # "null"

\* lines 154-161: the row given to the upsert
NoteRow(analysis) ==
    [meeting_id |-> "M",
     summary |-> IF analysis.summary > 0 THEN analysis.summary ELSE DEFAULT_SUMMARY_LEN,
     decisions |-> analysis.decisions,
     open_questions |-> analysis.open_questions]

\* alternative: a plain insert of the note row
InsertNote(rows, row) == rows \cup {row}

\* .upsert(row, { onConflict: "meeting_id" })
UpsertNote(rows, row) == {n \in rows : n.meeting_id # row.meeting_id} \cup {row}

\* alternative: the provider's priority stored as given
KeepPriority(p) == p

\* lines 173-175
NormalizePriority(p) == IF p \in {"high", "medium", "low"} THEN p ELSE "medium"

\* lines 168-179: analysis.action_items mapped to rows
ActionRow(item) ==
    [priority |-> NormalizePriority(item.priority),
     deadline |-> IF item.deadline = "missing" THEN "null" ELSE item.deadline,
     status |-> "open"]

ActionRows(list) == [i \in 1..Len(list) |-> ActionRow(list[i])]

\* alternative: the fetch step without the requirement of at least one row
AnalyzeFetchAnyRows(r) ==
    /\ Quiet
    /\ runs[r].stage = "analyze" /\ runs[r].pc = "fetch"
    /\ \E fetchOk \in StoreAnswers :
          IF ~fetchOk THEN Throw(r, "Transcript fetch failed")
          ELSE runs' = [runs EXCEPT ![r].pc = "work"]
    /\ UNCHANGED <<store, nRuns, client, hist>>

\* lines 34-45: fetch the transcript rows, require at least one
AnalyzeFetch(r) ==
    /\ Quiet
    /\ runs[r].stage = "analyze" /\ runs[r].pc = "fetch"
    /\ \E fetchOk \in StoreAnswers :
          IF ~fetchOk THEN Throw(r, "Transcript fetch failed")
          ELSE IF Len(transcripts) = 0 THEN Throw(r, "No transcripts found")
          ELSE runs' = [runs EXCEPT ![r].pc = "work"]
    /\ UNCHANGED <<store, nRuns, client, hist>>

\* lines 47-165: generation call, parsing, note upsert
AnalyzeNote(r) ==
    /\ Quiet
    /\ runs[r].stage = "analyze" /\ runs[r].pc = "work"
    /\ \/ /\ runs' = [runs EXCEPT ![r].pc = "catch", ![r].err = "Gemini failed",
                                  ![r].genCalled = TRUE]
          /\ UNCHANGED <<meeting_notes, lastNote>>
       \/ \E raw \in RawTexts, upsertOk \in StoreAnswers :
             LET analysis == ParseAnalysis(raw) IN
             IF ~ReadsProperties(analysis)
             THEN /\ runs' = [runs EXCEPT ![r].pc = "catch", ![r].err = "TypeError",
                                          ![r].genCalled = TRUE]
                  /\ UNCHANGED <<meeting_notes, lastNote>>
             ELSE IF ~(upsertOk /\ exists)
             THEN /\ runs' = [runs EXCEPT ![r].pc = "catch", ![r].err = "Save note failed",
                                          ![r].genCalled = TRUE]
                  /\ UNCHANGED <<meeting_notes, lastNote>>
             ELSE /\ meeting_notes' = UpsertNote(meeting_notes, NoteRow(analysis))
                  /\ lastNote' = NoteRow(analysis)
                  /\ runs' = [runs EXCEPT ![r].pc = "actions", ![r].genCalled = TRUE,
                                          ![r].analysis = analysis, ![r].rows = 1]
    /\ UNCHANGED <<exists, status, audio_path, transcripts, action_items, nodes, edges,
                   nRuns, client, writer, failedBy>>

\* alternative: the insert replacing the meeting's earlier action items
AnalyzeActionsReplacing(r) ==
    /\ Quiet
    /\ runs[r].stage = "analyze" /\ runs[r].pc = "actions"
    /\ LET a == runs[r].analysis IN
       IF a.items = "nonarray"
       THEN /\ runs' = [runs EXCEPT ![r].pc = "catch", ![r].err = "TypeError",
                                    ![r].analysis = NoAnalysis]
            /\ UNCHANGED action_items
       ELSE IF a.items = "missing" \/ Len(a.list) = 0
       THEN /\ runs' = [runs EXCEPT ![r].pc = "status", ![r].analysis = NoAnalysis]
            /\ UNCHANGED action_items
       ELSE \E insertOk \in StoreAnswers :
               IF insertOk /\ exists
               THEN /\ action_items' = ActionRows(a.list)
                    /\ runs' = [runs EXCEPT ![r].pc = "status", ![r].analysis = NoAnalysis,
                                            ![r].rows = runs[r].rows + Len(a.list)]
               ELSE /\ runs' = [runs EXCEPT ![r].pc = "catch",
                                            ![r].err = "Save action items failed",
                                            ![r].analysis = NoAnalysis]
                    /\ UNCHANGED action_items
    /\ UNCHANGED <<exists, status, audio_path, transcripts, meeting_notes, nodes, edges,
                   nRuns, client, hist>>

\* lines 167-187: map the action items, insert them when there are any
AnalyzeActions(r) ==
    /\ Quiet
    /\ runs[r].stage = "analyze" /\ runs[r].pc = "actions"
    /\ LET a == runs[r].analysis IN
       IF a.items = "nonarray"
       THEN /\ runs' = [runs EXCEPT ![r].pc = "catch", ![r].err = "TypeError",
                                    ![r].analysis = NoAnalysis]
            /\ UNCHANGED action_items
       ELSE IF a.items = "missing" \/ Len(a.list) = 0
       THEN /\ runs' = [runs EXCEPT ![r].pc = "status", ![r].analysis = NoAnalysis]
            /\ UNCHANGED action_items
       ELSE \E insertOk \in StoreAnswers :
               IF insertOk /\ exists
               THEN /\ action_items' = action_items \o ActionRows(a.list)
                    /\ runs' = [runs EXCEPT ![r].pc = "status", ![r].analysis = NoAnalysis,
                                            ![r].rows = runs[r].rows + Len(a.list)]
               ELSE /\ runs' = [runs EXCEPT ![r].pc = "catch",
                                            ![r].err = "Save action items failed",
                                            ![r].analysis = NoAnalysis]
                    /\ UNCHANGED action_items
    /\ UNCHANGED <<exists, status, audio_path, transcripts, meeting_notes, nodes, edges,
                   nRuns, client, hist>>

\* lines 189-205: status -> linking, success response
AnalyzeStatus(r) ==
    /\ Quiet
    /\ runs[r].stage = "analyze" /\ runs[r].pc = "status"
    /\ \E ok \in StoreAnswers :
          /\ UpdateStatus("linking", ok, RunWriter(r))
          /\ runs' = [runs EXCEPT ![r].pc = "resp", ![r].http = 200,
                                  ![r].applied = (exists /\ ok),
                                  ![r].wrote = "linking"]
    /\ UNCHANGED <<exists, audio_path, transcripts, meeting_notes, action_items, nodes, edges,
                   nRuns, client, lastNote>>

\* lines 206-219: catch: best-effort status -> failed, 500 response with the error
AnalyzeCatch(r) ==
    /\ Quiet
    /\ runs[r].stage = "analyze" /\ runs[r].pc = "catch"
    /\ \E ok \in StoreAnswers :
          /\ UpdateStatus("failed", ok, RunWriter(r))
          /\ runs' = [runs EXCEPT ![r].pc = "resp", ![r].http = 500,
                                  ![r].applied = (exists /\ ok),
                                  ![r].error = runs[r].err,
                                  ![r].wrote = "failed"]
    /\ UNCHANGED <<exists, audio_path, transcripts, meeting_notes, action_items, nodes, edges,
                   nRuns, client, lastNote>>

\* ------------------------------------------------- link-to-graph
\* An embedding is 0 (null: the embed call failed) or a point 1..3; the similarity of
\* two embeddings falls with their distance and is 100 (1.0) for equal ones.
Similarity(a, b) == 100 - 15 * (IF a < b THEN b - a ELSE a - b)

\* embed(text): the vector for a candidate of the given type when the call succeeds
EmbeddingOf(type) ==
    CASE type = "meeting" -> 1
      [] type = "note" -> 1
      [] type = "decision" -> 2
      [] type = "action" -> 3

Repeat(x, n) == [i \in 1..n |-> x]

\* lines 259-326: the candidate node list, from the rows read at lines 227-242; note
\* is the set holding the note row read (empty when data is null), actions the action
\* item rows read
Candidates(note, actions) ==
    <<"meeting">>
    \o (IF \E n \in note : n.summary > 0 THEN <<"note">> ELSE << >>)
    \o Repeat("decision", IF note # {} THEN (CHOOSE n \in note : TRUE).decisions ELSE 0)
    \o Repeat("action", Len(actions))

\* the embed calls of one run that fail: none, all, or the last one
EmbedFailures(cand) ==
    IF Orchestrated THEN {{}}
    ELSE {{}, 1..Len(cand), {Len(cand)}}

\* alternative: a candidate whose embed call failed is left out of the batch
NewNodesEmbeddedOnly(r, cand, failing) ==
    SelectSeq([i \in 1..Len(cand) |->
                 [id |-> r * ID_STRIDE + i, node_type |-> cand[i],
                  source_meeting_id |-> runs[r].meeting_id, user_id |-> "u",
                  embedding |-> IF i \in failing THEN 0 ELSE EmbeddingOf(cand[i])]],
              LAMBDA n : n.embedding # 0)

\* nodesToInsert with the ids the insert assigns, in batch order
NewNodes(r, cand, failing) ==
    [i \in 1..Len(cand) |->
        [id |-> r * ID_STRIDE + i, node_type |-> cand[i],
         source_meeting_id |-> runs[r].meeting_id, user_id |-> "u",
         embedding |-> IF i \in failing THEN 0 ELSE EmbeddingOf(cand[i])]]

\* the rows of a set of nodes as a sequence, nearest first (ties by id)
RECURSIVE Nearest(_, _)
Nearest(q, ns) ==
    IF ns = {} THEN << >>
    ELSE CHOOSE out \in
            { <<best>> \o Nearest(q, ns \ {best}) :
                best \in {n \in ns : \A m \in ns :
                            \/ Similarity(q, n.embedding) > Similarity(q, m.embedding)
                            \/ /\ Similarity(q, n.embedding) = Similarity(q, m.embedding)
                               /\ n.id <= m.id} } : TRUE

\* alternative: a search over the nodes of every user
SearchNodesAnyUser(q, user, count, threshold) ==
    LET hits == {n \in nodes : n.embedding # 0 /\ Similarity(q, n.embedding) >= threshold}
        all == Nearest(q, hits)
    IN SubSeq(all, 1, Min(Len(all), count))

\* rpc search_nodes(query_embedding, match_user_id, match_count, match_threshold)
SearchNodes(q, user, count, threshold) ==
    LET hits == {n \in nodes : /\ n.user_id = user
                               /\ n.embedding # 0 /\ Similarity(q, n.embedding) >= threshold}
        all == Nearest(q, hits)
    IN SubSeq(all, 1, Min(Len(all), count))

\* alternative: resolves from the threshold on
RelationFromThreshold(node, match) ==
    IF node.node_type = "meeting" /\ match.node_type = "meeting" THEN "continues"
    ELSE IF node.node_type = "decision" /\ match.node_type = "decision"
         THEN (IF Similarity(node.embedding, match.embedding) >= RESOLVES_ABOVE
               THEN "resolves" ELSE "references")
    ELSE "references"

\* lines 363-368
Relation(node, match) ==
    IF node.node_type = "meeting" /\ match.node_type = "meeting" THEN "continues"
    ELSE IF node.node_type = "decision" /\ match.node_type = "decision"
         THEN (IF Similarity(node.embedding, match.embedding) > RESOLVES_ABOVE
               THEN "resolves" ELSE "references")
    ELSE "references"

\* alternative: a check of the same direction only
AlreadyHasEdgeDirected(acc, a, b) ==
    \E i \in 1..Len(acc) : acc[i].from_node = a /\ acc[i].to_node = b

AlreadyHasEdge(acc, a, b) ==
    \E i \in 1..Len(acc) :
        \/ acc[i].from_node = a /\ acc[i].to_node = b
        \/ acc[i].from_node = b /\ acc[i].to_node = a

\* lines 354-378: the loop over one node's matches; it ends at the break
RECURSIVE MatchLoop(_, _, _, _)
MatchLoop(node, similar, acc, cap) ==
    IF similar = << >> THEN acc
    ELSE LET match == Head(similar) IN
         IF match.id = node.id \/ AlreadyHasEdge(acc, node.id, match.id)
         THEN MatchLoop(node, Tail(similar), acc, cap)
         ELSE LET next == Append(acc, [from_node |-> node.id, to_node |-> match.id,
                                       relation |-> Relation(node, match),
                                       strength |-> Similarity(node.embedding, match.embedding)])
              IN IF Len(next) >= cap THEN next
                 ELSE MatchLoop(node, Tail(similar), next, cap)

\* lines 344-379: the loop over the inserted nodes
RECURSIVE EdgeLoop(_, _, _)
EdgeLoop(inserted, acc, cap) ==
    IF inserted = << >> THEN acc
    ELSE LET node == Head(inserted) IN
         IF node.embedding = 0 THEN EdgeLoop(Tail(inserted), acc, cap)
         ELSE CHOOSE out \in
                 { EdgeLoop(Tail(inserted), found, cap) :
                     found \in { MatchLoop(node, similar, acc, cap) :
                                   \* match_user_id is meeting.user_id, the user_id
                                   \* the run gave the node
                                   similar \in {SearchNodes(node.embedding, node.user_id,
                                                            MAX_RELATED + 5,
                                                            SIMILARITY_THRESHOLD)} } } : TRUE

SeqToSet(q) == {q[i] : i \in 1..Len(q)}

\* The user's second meeting, "other": its row is there and is not deleted, its note
\* holds a summary and one decision, it has no action items.  Only its graph nodes
\* are part of the state.
OtherNote == [meeting_id |-> "other", summary |-> 12, decisions |-> 1, open_questions |-> 0]

RowExists(m) == IF m = "M" THEN exists ELSE TRUE

NotesOf(m) == IF m = "M" THEN meeting_notes ELSE {OtherNote}

ActionsOf(m) == IF m = "M" THEN action_items ELSE << >>

\* update({ status }).eq("id", meetingId) by run r, on the row of the run's meeting
UpdateStatusOf(r, val, ok) ==
    IF runs[r].meeting_id = "M" THEN UpdateStatus(val, ok, RunWriter(r))
    ELSE UNCHANGED <<status, writer, failedBy>>

\* lines 219-244: fetch the meeting row, then note, action items and transcripts
LinkFetch(r) ==
    /\ Quiet
    /\ runs[r].stage = "link" /\ runs[r].pc = "fetch"
    /\ \E rowOk \in StoreAnswers, noteOk \in StoreAnswers, actionsOk \in StoreAnswers :
          IF ~RowExists(runs[r].meeting_id) \/ ~rowOk THEN Throw(r, "Meeting not found")
          \* the selects on meeting_notes and action_items: data is null on an error,
          \* which is not read
          ELSE runs' = [runs EXCEPT ![r].pc = "remove",
                                    ![r].cand = Candidates(IF noteOk
                                                           THEN NotesOf(runs[r].meeting_id)
                                                           ELSE {},
                                                           IF actionsOk
                                                           THEN ActionsOf(runs[r].meeting_id)
                                                           ELSE << >>)]
    /\ UNCHANGED <<store, nRuns, client, hist>>

\* lines 246-257: delete the meeting's old nodes and their edges; results unchecked
LinkRemoveOld(r) ==
    /\ Quiet
    /\ runs[r].stage = "link" /\ runs[r].pc = "remove"
    /\ LET oldIds == {n.id : n \in {m \in nodes :
                                       m.source_meeting_id = runs[r].meeting_id}} IN
       \E okFrom \in StoreAnswers, okTo \in StoreAnswers, okNodes \in StoreAnswers :
          LET e1 == IF okFrom THEN {e \in edges : e.from_node \notin oldIds} ELSE edges
              e2 == IF okTo THEN {e \in e1 : e.to_node \notin oldIds} ELSE e1
              gone == IF okNodes THEN oldIds ELSE {}
          IN /\ nodes' = {n \in nodes : n.id \notin gone}
             \* edges.from_node / to_node reference nodes(id) on delete cascade
             /\ edges' = {e \in e2 : e.from_node \notin gone /\ e.to_node \notin gone}
    /\ runs' = [runs EXCEPT ![r].pc = "nodes"]
    /\ UNCHANGED <<exists, status, audio_path, transcripts, meeting_notes, action_items,
                   nRuns, client, hist>>

\* lines 259-334: embed every candidate, batch-insert the nodes
LinkInsertNodes(r) ==
    /\ Quiet
    /\ runs[r].stage = "link" /\ runs[r].pc = "nodes"
    /\ \E failing \in EmbedFailures(runs[r].cand), insertOk \in BOOLEAN :
          IF insertOk /\ RowExists(runs[r].meeting_id)
          THEN /\ nodes' = nodes \cup SeqToSet(NewNodes(r, runs[r].cand, failing))
               /\ runs' = [runs EXCEPT ![r].pc = "edges",
                                       ![r].inserted = NewNodes(r, runs[r].cand, failing)]
          ELSE /\ runs' = [runs EXCEPT ![r].pc = "catch", ![r].err = "Insert nodes failed",
                                       ![r].cand = << >>]
               /\ UNCHANGED nodes
    /\ UNCHANGED <<exists, status, audio_path, transcripts, meeting_notes, action_items, edges,
                   nRuns, client, hist>>

\* alternative: an edge insert that the store accepts whatever its endpoints are
LinkInsertEdgesUnreferenced(r) ==
    /\ Quiet
    /\ runs[r].stage = "link" /\ runs[r].pc = "edges"
    /\ LET edgesToInsert == EdgeLoop(runs[r].inserted, << >>, MAX_RELATED * Len(runs[r].cand)) IN
       /\ edges' = edges \cup SeqToSet(edgesToInsert)
       /\ runs' = [runs EXCEPT ![r].pc = "status", ![r].cand = << >>, ![r].inserted = << >>]
    /\ UNCHANGED <<exists, status, audio_path, transcripts, meeting_notes, action_items, nodes,
                   nRuns, client, hist>>

\* lines 336-390: search per node, build the edge list, insert it when not empty
LinkInsertEdges(r) ==
    /\ Quiet
    /\ runs[r].stage = "link" /\ runs[r].pc = "edges"
    /\ LET edgesToInsert == EdgeLoop(runs[r].inserted, << >>, MAX_RELATED * Len(runs[r].cand)) IN
       IF Len(edgesToInsert) = 0
       THEN /\ runs' = [runs EXCEPT ![r].pc = "status", ![r].cand = << >>,
                                    ![r].inserted = << >>]
            /\ UNCHANGED edges
       ELSE \E insertOk \in StoreAnswers :
               IF insertOk /\ \A e \in SeqToSet(edgesToInsert) :
                                 {e.from_node, e.to_node} \subseteq {n.id : n \in nodes}
               THEN /\ edges' = edges \cup SeqToSet(edgesToInsert)
                    /\ runs' = [runs EXCEPT ![r].pc = "status", ![r].edgeInsert = TRUE,
                                            ![r].rows = Len(edgesToInsert),
                                            ![r].cand = << >>, ![r].inserted = << >>]
               ELSE /\ runs' = [runs EXCEPT ![r].pc = "catch", ![r].err = "Insert edges failed",
                                            ![r].edgeInsert = TRUE,
                                            ![r].cand = << >>, ![r].inserted = << >>]
                    /\ UNCHANGED edges
    /\ UNCHANGED <<exists, status, audio_path, transcripts, meeting_notes, action_items, nodes,
                   nRuns, client, hist>>

\* lines 392-407: status -> done, success response
LinkStatus(r) ==
    /\ Quiet
    /\ runs[r].stage = "link" /\ runs[r].pc = "status"
    /\ \E ok \in StoreAnswers :
          /\ UpdateStatusOf(r, "done", ok)
          /\ runs' = [runs EXCEPT ![r].pc = "resp", ![r].http = 200,
                                  ![r].applied = (RowExists(runs[r].meeting_id) /\ ok),
                                  ![r].wrote = "done"]
    /\ UNCHANGED <<exists, audio_path, transcripts, meeting_notes, action_items, nodes, edges,
                   nRuns, client, lastNote>>

\* alternative: a catch that records the failure, as the other two functions do
LinkCatchAsFailure(r) ==
    /\ Quiet
    /\ runs[r].stage = "link" /\ runs[r].pc = "catch"
    /\ \E ok \in StoreAnswers :
          /\ UpdateStatus("failed", ok, RunWriter(r))
          /\ runs' = [runs EXCEPT ![r].pc = "resp", ![r].http = 500,
                                  ![r].applied = (exists /\ ok),
                                  ![r].error = runs[r].err,
                                  ![r].wrote = "failed"]
    /\ UNCHANGED <<exists, audio_path, transcripts, meeting_notes, action_items, nodes, edges,
                   nRuns, client, lastNote>>

\* lines 408-422: catch: status -> done all the same, 500 response with the error
LinkCatch(r) ==
    /\ Quiet
    /\ runs[r].stage = "link" /\ runs[r].pc = "catch"
    /\ \E ok \in StoreAnswers :
          /\ UpdateStatusOf(r, "done", ok)
          /\ runs' = [runs EXCEPT ![r].pc = "resp", ![r].http = 500,
                                  ![r].applied = (RowExists(runs[r].meeting_id) /\ ok),
                                  ![r].error = runs[r].err,
                                  ![r].wrote = "done"]
    /\ UNCHANGED <<exists, audio_path, transcripts, meeting_notes, action_items, nodes, edges,
                   nRuns, client, lastNote>>

\* ------------------------------------------------- invoking an edge function
\* Deno.serve handler, lines 21-31 of each function: a request without meeting_id is
\* answered 400 before anything else happens; otherwise the run starts.
\* the request body: JSON with a meeting_id, JSON without the field, JSON with an empty
\* meeting_id, or text that req.json() rejects
Bodies == {"id", "missing", "empty", "unparseable"}

\* alternative: any meeting_id field, empty or not, lets the request in
HasMeetingIdField(body) == body \in {"id", "empty"}

\* lines 23-25: req.json() did not throw and body.meeting_id is truthy
HasMeetingId(body) == body = "id"

Invoke(stage, t, body) ==
    /\ nRuns < (IF screen = "none" THEN MaxRuns ELSE MaxCalls)
    /\ nRuns' = nRuns + 1
    /\ runs' = [runs EXCEPT ![nRuns + 1] =
                  IF HasMeetingId(body)
                  THEN [NoRun EXCEPT !.stage = stage, !.pc = "fetch", !.trig = t,
                                     !.body = body]
                  ELSE [NoRun EXCEPT !.stage = stage, !.pc = "resp", !.trig = t,
                                     !.body = body,
                                     !.http = 400, !.error = "meeting_id required"]]

\* any caller of the endpoint
DirectInvoke(stage) ==
    /\ Quiet
    /\ \E body \in Bodies : Invoke(stage, 0, body)
    /\ UNCHANGED <<store, client, hist>>

\* the caller's fetch is still waiting for the run's response
Awaited(r) == \E t \in TrigIds : trig[t].pc = "wait" /\ trig[t].run = r

\* The response leaves the handler: what stays of the run is what the caller can see.
Send(r) ==
    /\ runs[r].pc = "resp"
    /\ runs' = [runs EXCEPT ![r] = IF Awaited(r)
                                    THEN [NoRun EXCEPT !.pc = "sent", !.http = runs[r].http]
                                    ELSE [NoRun EXCEPT !.pc = "sent"]]
    /\ UNCHANGED <<store, nRuns, client, hist>>

RunStep(r) ==
    \/ TranscribeFetch(r) \/ TranscribeSave(r) \/ TranscribeStatus(r) \/ TranscribeCatch(r)
    \/ AnalyzeFetch(r) \/ AnalyzeNote(r) \/ AnalyzeActions(r) \/ AnalyzeStatus(r)
    \/ AnalyzeCatch(r)
    \/ LinkFetch(r) \/ LinkRemoveOld(r) \/ LinkInsertNodes(r) \/ LinkInsertEdges(r)
    \/ LinkStatus(r) \/ LinkCatch(r)

ClientIdle ==
    /\ screen = "none" /\ seen = "none"
    /\ transcriptionTriggered = FALSE /\ analysisTriggered = FALSE /\ linkingTriggered = FALSE
    /\ trig = [t \in TrigIds |-> NoTrig] /\ nTrig = 0 /\ retries = 0

EmptyStore ==
    /\ transcripts = << >> /\ meeting_notes = {} /\ action_items = << >>
    /\ nodes = {} /\ edges = {}

\* The stages on their own: a meeting that is absent (deleted), still recording,
\* uploaded, or transcribed, and the endpoints invoked by any caller in any order, runs
\* overlapping freely.
InitStage ==
    /\ \E phase \in {"absent", "recording", "processing", "analyzing"} :
          /\ exists = (phase # "absent")
          /\ status = (IF phase = "absent" THEN "recording" ELSE phase)
          /\ audio_path = (IF phase \in {"processing", "analyzing"} THEN "path" ELSE "null")
          /\ transcripts = (IF phase = "analyzing"
                            THEN ParseTranscript(1, <<"spk", "plain">>) ELSE << >>)
          /\ writer = (IF phase = "analyzing"
                       THEN [stage |-> "transcribe", kind |-> "run", retry |-> FALSE]
                       ELSE NoWriter)
    /\ meeting_notes = {} /\ action_items = << >> /\ nodes = {} /\ edges = {}
    /\ runs = [r \in RunIds |-> NoRun] /\ nRuns = 0
    /\ ClientIdle
    /\ lastNote = NoteRow(NoAnalysis) /\ failedBy = "none"

NextStage ==
    \/ \E stage \in Stages : DirectInvoke(stage)
    \/ \E r \in RunIds : RunStep(r)
    \/ \E r \in RunIds : Send(r)

SpecStage == InitStage /\ [][NextStage]_vars

\* ------------------------------------------------- the mobile client
\* alternative: the status written whether or not the storage upload succeeded
UploadMeetingAudioStatusFirst ==
    /\ Quiet
    /\ screen = "record"
    /\ \E uploadOk \in BOOLEAN :
          /\ status' = "processing"
          /\ audio_path' = (IF uploadOk THEN "path" ELSE "null")
          /\ writer' = [stage |-> "upload", kind |-> "client", retry |-> FALSE]
          /\ screen' = (IF uploadOk THEN "uploaded" ELSE "aborted")
    /\ UNCHANGED <<exists, transcripts, meeting_notes, action_items, nodes, edges, server,
                   seen, transcriptionTriggered, analysisTriggered, linkingTriggered,
                   trig, nTrig, retries, lastNote, failedBy>>

\* handleStopRecording up to uploadMeetingAudio: the storage upload, then
\* updateMeetingStatus(meetingId, 'processing', { audio_path, ended_at })
UploadMeetingAudio ==
    /\ Quiet
    /\ screen = "record"
    /\ \E uploadOk \in BOOLEAN, updateOk \in BOOLEAN :
          IF uploadOk /\ updateOk
          THEN /\ status' = "processing" /\ audio_path' = "path"
               /\ writer' = [stage |-> "upload", kind |-> "client", retry |-> FALSE]
               /\ screen' = "uploaded"
          ELSE /\ screen' = "aborted"
               /\ UNCHANGED <<status, audio_path, writer>>
    /\ UNCHANGED <<exists, transcripts, meeting_notes, action_items, nodes, edges, server,
                   seen, transcriptionTriggered, analysisTriggered, linkingTriggered,
                   trig, nTrig, retries, lastNote, failedBy>>

\* handleStopRecording, record.tsx lines 144-149: a second status write, then the
\* processing screen replaces the recording screen
OpenProcessingScreen ==
    /\ Quiet
    /\ screen = "uploaded"
    /\ \E updateOk \in BOOLEAN :
          IF updateOk
          THEN /\ status' = "processing"
               /\ writer' = [stage |-> "upload", kind |-> "client", retry |-> FALSE]
               /\ screen' = "processing"
          ELSE /\ screen' = "aborted"
               /\ UNCHANGED <<status, writer>>
    /\ UNCHANGED <<exists, audio_path, transcripts, meeting_notes, action_items, nodes, edges,
                   server, seen, transcriptionTriggered, analysisTriggered, linkingTriggered,
                   trig, nTrig, retries, lastNote, failedBy>>

\* doTranscribe / doAnalyze / doLink past their guard: the ref is set and triggerX(id)
\* is called; callEdgeFunction is then at its first attempt
StartTrigger(stage, byRetry) ==
    /\ nTrig < Cardinality(TrigIds)
    /\ nTrig' = nTrig + 1
    /\ trig' = [trig EXCEPT ![nTrig + 1] =
                  [stage |-> stage, pc |-> "call", attempt |-> 1, run |-> 0, retry |-> byRetry]]

\* alternative: a screen without the effect that dispatches linking
DispatchTwoStages(st) ==
    CASE st = "processing" /\ ~transcriptionTriggered -> "transcribe"
      [] st = "analyzing" /\ ~analysisTriggered -> "analyze"
      [] OTHER -> "none"

\* the stage the three effects of ProcessingScreen dispatch for a status, if any
Dispatch(st) ==
    CASE st = "processing" /\ ~transcriptionTriggered -> "transcribe"
      [] st = "analyzing" /\ ~analysisTriggered -> "analyze"
      [] st = "linking" /\ ~linkingTriggered -> "link"
      [] OTHER -> "none"

\* useQuery refetch (every 3 s until the data says done or failed), the render that
\* follows, and the effects that run when meeting?.status changed
Poll ==
    /\ Quiet
    /\ screen = "processing"
    /\ seen \notin {"done", "failed"}
    /\ exists
    /\ seen' = status
    /\ IF status # seen /\ Dispatch(status) # "none"
       THEN /\ StartTrigger(Dispatch(status), FALSE)
            /\ transcriptionTriggered' = (transcriptionTriggered \/ status = "processing")
            /\ analysisTriggered' = (analysisTriggered \/ status = "analyzing")
            /\ linkingTriggered' = (linkingTriggered \/ status = "linking")
       ELSE UNCHANGED <<trig, nTrig, transcriptionTriggered, analysisTriggered,
                        linkingTriggered>>
    /\ UNCHANGED <<store, server, screen, retries, hist>>

\* the Retry button, shown while the status on screen is failed
Retry ==
    /\ Quiet
    /\ screen = "processing"
    /\ seen = "failed"
    /\ retries < MaxRetry
    /\ retries' = retries + 1
    /\ transcriptionTriggered' = TRUE
    /\ StartTrigger("transcribe", TRUE)
    /\ UNCHANGED <<store, server, screen, seen, analysisTriggered, linkingTriggered, hist>>

\* the effect on done: router.replace to the meeting screen after 1.5 s
LeaveWhenDone ==
    /\ Quiet
    /\ screen = "processing"
    /\ seen = "done"
    /\ screen' = "meeting"
    /\ UNCHANGED <<store, server, seen, transcriptionTriggered, analysisTriggered,
                   linkingTriggered, trig, nTrig, retries, hist>>

\* alternative: callEdgeFunction giving up after the first failed attempt
AfterFailedAttemptGiveUp(t) == [trig[t] EXCEPT !.pc = "fallback", !.run = 0]

\* callEdgeFunction, after an attempt that did not return 2xx: back off and try again,
\* or return false after the last attempt
AfterFailedAttempt(t) ==
    IF trig[t].attempt < maxRetries
    THEN [trig[t] EXCEPT !.pc = "call", !.attempt = trig[t].attempt + 1, !.run = 0]
    ELSE [trig[t] EXCEPT !.pc = "fallback", !.run = 0]

\* callEdgeFunction lines 188-196: the fetch; the request reaches the function, or the
\* fetch rejects before it does
TrigCall(t) ==
    /\ Quiet
    /\ trig[t].pc = "call"
    /\ \/ /\ Invoke(trig[t].stage, t, "id")
          /\ trig' = [trig EXCEPT ![t].pc = "wait", ![t].run = nRuns + 1]
       \/ /\ trig' = [trig EXCEPT ![t] = AfterFailedAttempt(t)]
          /\ UNCHANGED server
    /\ UNCHANGED <<store, screen, seen, transcriptionTriggered, analysisTriggered,
                   linkingTriggered, nTrig, retries, hist>>

\* callEdgeFunction lines 198-203: the response arrives
TrigResponse(t) ==
    /\ Quiet
    /\ trig[t].pc = "wait"
    /\ runs[trig[t].run].pc = "sent"
    /\ trig' = [trig EXCEPT ![t] = IF runs[trig[t].run].http = 200
                                   THEN [NoTrig EXCEPT !.pc = "end", !.stage = trig[t].stage]
                                   ELSE AfterFailedAttempt(t)]
    /\ runs' = [runs EXCEPT ![trig[t].run].http = 0]
    /\ UNCHANGED <<store, nRuns, screen, seen, transcriptionTriggered, analysisTriggered,
                   linkingTriggered, nTrig, retries, hist>>

\* callEdgeFunction lines 204-207: the fetch rejects while the function runs on, or
\* after it answered
TrigNetworkError(t) ==
    /\ Quiet
    /\ trig[t].pc = "wait"
    /\ trig' = [trig EXCEPT ![t] = AfterFailedAttempt(t)]
    /\ runs' = [runs EXCEPT ![trig[t].run].http = IF runs[trig[t].run].pc = "sent"
                                                  THEN 0 ELSE runs[trig[t].run].http]
    /\ UNCHANGED <<store, nRuns, screen, seen, transcriptionTriggered, analysisTriggered,
                   linkingTriggered, nTrig, retries, hist>>

\* the status triggerX writes when callEdgeFunction returned false
FallbackStatus(stage) == IF stage = "transcribe" THEN "failed" ELSE "done"

\* triggerTranscription / triggerAnalysis / triggerLinking after callEdgeFunction
\* returned false: updateMeetingStatus, which throws when the update fails; doX then
\* clears its ref
TrigFallback(t) ==
    /\ Quiet
    /\ trig[t].pc = "fallback"
    /\ \E updateOk \in BOOLEAN :
          IF updateOk /\ exists
          THEN /\ UpdateStatus(FallbackStatus(trig[t].stage), TRUE,
                               [stage |-> trig[t].stage, kind |-> "client",
                                retry |-> trig[t].retry])
               /\ trig' = [trig EXCEPT ![t] = [NoTrig EXCEPT !.pc = "end", !.stage = trig[t].stage]]
               /\ UNCHANGED <<transcriptionTriggered, analysisTriggered, linkingTriggered>>
          ELSE /\ UNCHANGED <<status, writer, failedBy>>
               /\ trig' = [trig EXCEPT ![t] = [NoTrig EXCEPT !.pc = "threw", !.stage = trig[t].stage]]
               /\ transcriptionTriggered' = (transcriptionTriggered /\ trig[t].stage # "transcribe")
               /\ analysisTriggered' = (analysisTriggered /\ trig[t].stage # "analyze")
               /\ linkingTriggered' = (linkingTriggered /\ trig[t].stage # "link")
    /\ UNCHANGED <<exists, audio_path, transcripts, meeting_notes, action_items, nodes, edges,
                   server, screen, seen, nTrig, retries, lastNote>>

TrigStep(t) == TrigCall(t) \/ TrigResponse(t) \/ TrigNetworkError(t) \/ TrigFallback(t)

\* The orchestrated pipeline: a meeting just recorded, the client uploading its audio
\* and driving the stages from the processing screen.
Init ==
    /\ exists = TRUE /\ status = "recording" /\ audio_path = "null"
    /\ EmptyStore
    /\ runs = [r \in RunIds |-> NoRun] /\ nRuns = 0
    /\ screen = "record" /\ seen = "none"
    /\ transcriptionTriggered = FALSE /\ analysisTriggered = FALSE /\ linkingTriggered = FALSE
    /\ trig = [t \in TrigIds |-> NoTrig] /\ nTrig = 0 /\ retries = 0
    /\ lastNote = NoteRow(NoAnalysis) /\ writer = NoWriter /\ failedBy = "none"

Next ==
    \/ UploadMeetingAudio \/ OpenProcessingScreen \/ Poll \/ Retry \/ LeaveWhenDone
    \/ \E t \in TrigIds : TrigStep(t)
    \/ \E r \in RunIds : RunStep(r)
    \/ \E r \in RunIds : Send(r)

Spec == Init /\ [][Next]_vars

\* ------------------------------------------------- properties
\* C1: under the orchestrated pipeline the stored status never moves backward in the
\* order processing < analyzing < linking < done; a step to failed is allowed, and the
\* only other non-forward step is leaving failed by a run of the stage that set it.
C1_StatusMonotonic ==
    [][LET rank == [s \in Statuses |->
                      CASE s = "recording" -> 0 [] s = "processing" -> 1
                        [] s = "analyzing" -> 2 [] s = "linking" -> 3
                        [] s = "done" -> 4 [] OTHER -> 5]
       IN status' # status =>
             \/ status' = "failed"
             \/ status # "failed" /\ rank[status] < rank[status']
             \/ status = "failed" /\ writer'.kind = "run" /\ writer'.stage = failedBy]_vars

\* C2: done and failed are terminal for automatic transitions: a status of done never
\* changes, and a status of failed changes only by a run the user's Retry started.
C2_TerminalStatuses ==
    [][/\ status = "done" => status' = "done"
       /\ status = "failed" /\ status' # "failed" =>
             writer'.kind = "run" /\ writer'.retry]_vars

\* C3: failed is never written while the stored status is linking.
C3_NoFailedFromLinking ==
    [][status = "linking" => status' # "failed"]_vars

\* C4: every link-to-graph run for an existing meeting ends having written status done,
\* on the normal path (an edge insert is issued exactly when there are edges) and on
\* every throw (meeting fetch, node insert, edge insert).
C4_LinkingEndsDone ==
    \A r \in RunIds :
        runs[r].stage = "link" /\ runs[r].pc = "resp" /\ runs[r].http # 400 /\ exists =>
            /\ runs[r].wrote = "done"
            /\ runs[r].applied => status = "done"
            /\ runs[r].http = 200 => (runs[r].edgeInsert <=> runs[r].rows > 0)
            /\ runs[r].http = 500 =>
                  runs[r].err \in {"Meeting not found", "Insert nodes failed",
                                   "Insert edges failed"}

\* a link run that threw at the edge insert, answered, and left the status done
C4_Witness ==
    \E r \in RunIds :
        /\ runs[r].stage = "link" /\ runs[r].pc = "resp" /\ exists
        /\ runs[r].err = "Insert edges failed" /\ runs[r].http = 500
        /\ runs[r].applied /\ status = "done"

\* C5: whatever step a transcribe-meeting run fails at, it writes status failed and
\* answers non-2xx with the original failure as its error, also when the write of
\* failed is itself rejected.
C5_TranscribeFailureSurfaced ==
    \A r \in RunIds :
        runs[r].stage = "transcribe" /\ runs[r].pc = "resp" /\ runs[r].err # "none" =>
            /\ runs[r].wrote = "failed"
            /\ runs[r].applied => status = "failed"
            /\ runs[r].http = 500
            /\ runs[r].error = runs[r].err

\* a run that found no file URI, whose write of failed the store rejected
C5_Witness ==
    \E r \in RunIds :
        /\ runs[r].stage = "transcribe" /\ runs[r].pc = "resp" /\ exists
        /\ runs[r].err = "No file URI" /\ ~runs[r].applied
        /\ runs[r].http = 500 /\ runs[r].error = "No file URI"

\* C6: a transcribe-meeting run that ends in a failure response has inserted no segment;
\* a run on a meeting without audio_path writes failed, inserts no segment and makes no
\* generation call.
C6_FailedRunWritesNoSegment ==
    \A r \in RunIds :
        runs[r].stage = "transcribe" =>
            /\ runs[r].pc \in {"catch", "resp"} /\ runs[r].http # 200 => runs[r].rows = 0
            /\ audio_path = "null" => ~runs[r].genCalled /\ runs[r].rows = 0
            /\ audio_path = "null" /\ runs[r].pc = "resp" /\ runs[r].http # 400 =>
                  runs[r].wrote = "failed" /\ runs[r].http = 500

\* a run on an existing meeting without audio that answered after setting failed
C6_Witness ==
    \E r \in RunIds :
        /\ runs[r].stage = "transcribe" /\ runs[r].pc = "resp" /\ exists
        /\ runs[r].err = "No audio uploaded" /\ runs[r].applied /\ status = "failed"
        /\ transcripts = << >>

\* C7: re-running transcription after a run whose insert succeeded does not duplicate
\* segments: the meeting holds the segments of one insert.
C7_NoDuplicateSegments == Cardinality(Batches(transcripts)) <= 1

\* C8: there is at most one meeting_notes row for the meeting, and it is the row of the
\* most recent note write.
C8_OneNotePerMeeting ==
    /\ Cardinality(meeting_notes) <= 1
    /\ meeting_notes \subseteq {lastNote}

\* two runs past their note write with different rows, the store holding the later one
C8_Witness ==
    \E r1 \in RunIds, r2 \in RunIds :
        /\ runs[r1].stage = "analyze" /\ runs[r1].pc = "actions"
        /\ runs[r2].stage = "analyze" /\ runs[r2].pc = "actions"
        /\ NoteRow(runs[r1].analysis) # NoteRow(runs[r2].analysis)
        /\ meeting_notes = {NoteRow(runs[r2].analysis)}

\* C9: an analyze-meeting run that finds no transcript rows, or whose fetch errors,
\* answers with a failure, writes failed, makes no generation call and writes no note
\* and no action item; with no transcript rows a run gets no further than that; a run
\* that succeeds writes linking.
C9_AnalysisNeedsTranscript ==
    \A r \in RunIds :
        runs[r].stage = "analyze" =>
            /\ runs[r].pc = "resp"
               /\ runs[r].err \in {"No transcripts found", "Transcript fetch failed"} =>
                  /\ runs[r].http = 500 /\ runs[r].wrote = "failed"
                  /\ runs[r].applied => status = "failed"
                  /\ ~runs[r].genCalled /\ runs[r].rows = 0
            /\ Len(transcripts) = 0 /\ runs[r].pc \in {"work", "actions", "status", "catch"} =>
                  runs[r].err \in {"No transcripts found", "Transcript fetch failed"}
            /\ runs[r].pc = "resp" /\ runs[r].http = 200 =>
                  /\ runs[r].wrote = "linking"
                  /\ runs[r].applied => status = "linking"

\* a run that found no transcript rows, answered, and left the status failed
C9_Witness ==
    \E r \in RunIds :
        /\ runs[r].stage = "analyze" /\ runs[r].pc = "resp" /\ exists
        /\ runs[r].err = "No transcripts found" /\ runs[r].applied /\ status = "failed"
        /\ meeting_notes = {} /\ action_items = << >>

\* C10: whatever text the generation call returned, the analyze-meeting run does not
\* fail on it: a run whose generation call answered and whose store writes were
\* accepted ends with a 200 response and status linking written.
C10_AnyTextAccepted ==
    \A r \in RunIds :
        /\ runs[r].stage = "analyze" /\ runs[r].pc = "resp" /\ runs[r].genCalled
        /\ runs[r].err \notin {"Gemini failed", "Save note failed", "Save action items failed"}
        => runs[r].http = 200 /\ runs[r].wrote = "linking"

\* C11: once a link-to-graph run has inserted its nodes, the meeting's nodes are exactly
\* the nodes of that run, and every edge joins nodes of that run.
C11_NodesReplaced ==
    \A r \in RunIds :
        runs[r].stage = "link" /\ runs[r].pc = "edges" =>
            /\ {n \in nodes : n.source_meeting_id = "M"} = SeqToSet(runs[r].inserted)
            /\ \A e \in edges :
                  {e.from_node, e.to_node} \subseteq {n.id : n \in SeqToSet(runs[r].inserted)}

\* C12: the edge list one link-to-graph run accumulates never holds two edges that join
\* the same unordered pair of nodes.
C12_OneEdgePerPair ==
    \A r \in RunIds :
        runs[r].stage = "link" /\ runs[r].pc = "edges" =>
            LET es == EdgeLoop(runs[r].inserted, << >>, MAX_RELATED * Len(runs[r].cand))
            IN \A i \in 1..Len(es), j \in 1..Len(es) :
                  i # j => {es[i].from_node, es[i].to_node} # {es[j].from_node, es[j].to_node}

\* a run whose list joins two of its own nodes, both with an embedding, so that each is
\* among the other's matches
C12_Witness ==
    \E r \in RunIds :
        /\ runs[r].stage = "link" /\ runs[r].pc = "edges"
        /\ LET es == EdgeLoop(runs[r].inserted, << >>, MAX_RELATED * Len(runs[r].cand))
           IN \E i \in 1..Len(es), k \in 1..Len(runs[r].inserted) :
                 /\ es[i].to_node = runs[r].inserted[k].id
                 /\ runs[r].inserted[k].embedding # 0
                 /\ runs[r].inserted[k] \in nodes

\* C13: under the shipped caller, no two runs of the same edge function are in flight
\* for the meeting at the same time.
C13_OneRunPerStage ==
    \A r1 \in RunIds, r2 \in RunIds :
        /\ r1 # r2
        /\ runs[r1].pc \notin {"free", "sent"}
        /\ runs[r2].pc \notin {"free", "sent"}
        => runs[r1].stage # runs[r2].stage

\* ------------------------------------------------- the pipeline under fair scheduling
\* The steps that need no user: the upload in progress, the query's timer, the effects,
\* a pending fetch settling, a started run going on to its response.
Automatic ==
    \/ UploadMeetingAudio \/ OpenProcessingScreen \/ Poll \/ LeaveWhenDone
    \/ \E t \in TrigIds : TrigStep(t)
    \/ \E r \in RunIds : RunStep(r)
    \/ \E r \in RunIds : Send(r)

\* An automatic step that stays possible is eventually taken; the user may or may not
\* press Retry.
SpecFair == Spec /\ WF_vars(Automatic)

\* an upload, a store write, a gateway call or a fetch has failed and the failure is
\* still on record: the upload was aborted, a run holds an error, or a trigger call is
\* past its first attempt
Mishap ==
    \/ screen = "aborted"
    \/ \E r \in RunIds : runs[r].err # "none"
    \/ \E t \in TrigIds : trig[t].attempt > 1 \/ trig[t].pc = "fallback"

\* what the meeting holds after one successful pass of the three stages
Complete ==
    /\ status = "done"
    /\ \E text \in Transcripts : transcripts = ParseTranscript(1, text)
    /\ \E raw \in RawTexts :
          /\ meeting_notes = {NoteRow(ParseAnalysis(raw))}
          /\ action_items = ActionRows(ParseAnalysis(raw).list)
    /\ \A i \in 1..Len(action_items) : action_items[i].status = "open"
    /\ \E n \in nodes : n.node_type = "meeting" /\ n.source_meeting_id = "M"

\* C14: when nothing fails, the meeting goes on to analyzing, then to linking, then to
\* done, and then holds one segment per non-blank transcript line, one note, the action
\* items of the generation response, all open, and a meeting node.
C14_EndToEnd ==
    <>(Mishap \/ (status = "analyzing"
                  /\ <>(Mishap \/ (status = "linking" /\ <>(Mishap \/ Complete)))))

\* the three stages ran once each, nothing failed, and the meeting is complete
C14_Witness ==
    /\ Complete /\ ~Mishap
    /\ nRuns = 3 /\ nTrig = 3 /\ retries = 0
    /\ Len(transcripts) = 2 /\ Len(action_items) = 1

\* C15: a press of Retry on a meeting that is failed invokes the stage that set failed.
C15_RetryOwningStage ==
    [][retries' # retries /\ status = "failed" => trig'[nTrig'].stage = failedBy]_vars

\* C16: with the processing screen mounted, whatever the outcome of each attempt of
\* each stage, the status eventually settles in done or failed; it does not stay in
\* processing, analyzing or linking forever (a trigger call that threw because the
\* client's own fallback write was rejected is not among those outcomes).
C16_PipelineSettles ==
    (screen = "processing") ~>
        (\/ [](status \in {"done", "failed"})
         \/ \E t \in TrigIds : trig[t].pc = "threw")

\* C17: a store write the store rejects is fatal to the run that issued it: in particular
\* a run answers with success only if its status write (analyzing, linking, done) was
\* applied.
C17_RejectedWriteIsFatal ==
    \A r \in RunIds :
        runs[r].pc = "resp" /\ runs[r].http = 200 => runs[r].applied

\* C18: a transcription run that reached the generation call encoded its payload inline
\* when the payload had at most 4*1024*1024 bytes (the limit included) and went through
\* the resumable upload when it had more; no run uses both strategies.
C18_TransferStrategy ==
    \A r \in RunIds :
        /\ ~(runs[r].audioBase64 /\ runs[r].fileUri)
        /\ runs[r].stage = "transcribe" /\ runs[r].genCalled =>
              /\ runs[r].len <= 4 * 1024 * 1024 => runs[r].audioBase64 /\ ~runs[r].fileUri
              /\ runs[r].len > 4 * 1024 * 1024 => runs[r].fileUri /\ ~runs[r].audioBase64

C18_Witness ==
    \E r1, r2 \in RunIds :
        /\ runs[r1].stage = "transcribe" /\ runs[r1].genCalled
        /\ runs[r1].len = 4 * 1024 * 1024 /\ runs[r1].audioBase64
        /\ runs[r2].stage = "transcribe" /\ runs[r2].genCalled
        /\ runs[r2].len = 4 * 1024 * 1024 + 1 /\ runs[r2].fileUri

\* C19: parsing yields, in line order, one segment per non-blank line, with the speaker
\* label of a "Speaker N:" line and a null label otherwise; a text that is empty, all
\* blank or only [inaudible] yields the single segment "[No speech detected in this
\* recording]" with a null label; so the insert of a run that goes on to its status
\* write appends at least one segment.
C19_OneSegmentPerLine ==
    [][\A r \in RunIds :
          runs[r].stage = "transcribe" /\ runs[r].pc = "work" /\ runs'[r].pc = "status" =>
             LET b == Cardinality(Batches(transcripts)) + 1
                 Expected(text) ==
                     LET nb == SelectSeq(text, LAMBDA l : l # "blank")
                     IN IF nb = << >> \/ nb = <<"inaud">>
                        THEN << [batch |-> b, speaker_label |-> "null",
                                 text |-> "[No speech detected in this recording]"] >>
                        ELSE [i \in 1..Len(nb) |->
                                [batch |-> b,
                                 speaker_label |-> IF nb[i] = "spk" THEN "Speaker N" ELSE "null",
                                 text |-> IF nb[i] = "inaud" THEN "[inaudible]" ELSE "words"]]
             IN /\ \A text \in Transcripts : ParseTranscript(b, text) = Expected(text)
                /\ \E text \in Transcripts : transcripts' = transcripts \o Expected(text)
                /\ Len(transcripts') > Len(transcripts)
                /\ runs'[r].rows = Len(transcripts') - Len(transcripts)]_vars

C19_Witness ==
    /\ \E r \in RunIds : /\ runs[r].stage = "transcribe" /\ runs[r].pc = "resp"
                         /\ runs[r].http = 200 /\ runs[r].rows = 2
    /\ \E i, j, k \in 1..Len(transcripts) :
          /\ transcripts[i].text = "[No speech detected in this recording]"
          /\ transcripts[j].speaker_label = "Speaker N"
          /\ transcripts[k].speaker_label = "null" /\ transcripts[k].text = "words"

\* C20: every action item the analysis stage inserts has the provider's priority when
\* that is high, medium or low and medium otherwise, status open, and the provider's
\* deadline, or null when the provider gave none.
C20_ActionItemDefaults ==
    [][\A r \in RunIds :
          (/\ runs[r].stage = "analyze" /\ runs[r].pc = "actions"
           /\ runs'[r].pc = "status" /\ runs[r].analysis.items = "array") =>
             LET list == runs[r].analysis.list
                 old == Len(action_items)
             IN /\ Len(action_items') = old + Len(list)
                /\ \A i \in 1..old : action_items'[i] = action_items[i]
                /\ \A i \in 1..Len(list) :
                      LET row == action_items'[old + i] IN
                      /\ row.priority \in {"high", "medium", "low"}
                      /\ list[i].priority \in {"high", "medium", "low"} =>
                            row.priority = list[i].priority
                      /\ list[i].priority \notin {"high", "medium", "low"} =>
                            row.priority = "medium"
                      /\ row.status = "open"
                      /\ row.deadline = IF list[i].deadline = "missing" THEN "null"
                                        ELSE list[i].deadline]_vars

C20_Witness ==
    \E i, j \in 1..Len(action_items) :
        /\ action_items[i] = [priority |-> "low", deadline |-> "2026-01-01", status |-> "open"]
        /\ action_items[j] = [priority |-> "medium", deadline |-> "null", status |-> "open"]

\* ------------------------------------------------- meetingService.deleteMeeting
\* The whole call as one step.  The two selects, the three graph deletes and the storage
\* remove are awaited without reading their error; only the delete of the meetings row
\* is checked.  The schema cascades that delete to transcripts, meeting_notes and
\* action_items, sets nodes.source_meeting_id to null, and cascades a node delete to the
\* edges at that node.
DeleteMeeting ==
    /\ Quiet
    /\ exists
    /\ \E selOk \in StoreAnswers, okFrom \in StoreAnswers, okTo \in StoreAnswers,
          okNodes \in StoreAnswers, okMeeting \in StoreAnswers :
          LET nodeIds == IF selOk THEN {n.id : n \in {m \in nodes : m.source_meeting_id = "M"}}
                         ELSE {}
              e1 == IF okFrom THEN {e \in edges : e.from_node \notin nodeIds} ELSE edges
              e2 == IF okTo THEN {e \in e1 : e.to_node \notin nodeIds} ELSE e1
              gone == IF nodeIds # {} /\ okNodes
                      THEN {n.id : n \in {m \in nodes : m.source_meeting_id = "M"}} ELSE {}
              left == {n \in nodes : n.id \notin gone}
          IN /\ edges' = {e \in e2 : e.from_node \notin gone /\ e.to_node \notin gone}
             /\ IF okMeeting
                THEN /\ exists' = FALSE /\ status' = "recording" /\ audio_path' = "null"
                     /\ transcripts' = << >> /\ meeting_notes' = {} /\ action_items' = << >>
                     /\ nodes' = {[n EXCEPT !.source_meeting_id = "null"] : n \in left}
                ELSE /\ nodes' = left
                     /\ UNCHANGED <<exists, status, audio_path, transcripts, meeting_notes,
                                    action_items>>
    /\ UNCHANGED <<server, client, hist>>

\* nodes of the user's other meetings already in the graph: id, type, embedding
OtherNodes ==
    { [id |-> k, node_type |-> ty, source_meeting_id |-> "other", user_id |-> "u",
       embedding |-> em] :
        <<k, ty, em>> \in { <<1, "meeting", 1>>, <<2, "decision", 1>>, <<3, "decision", 2>>,
                            <<4, "decision", 3>>, <<5, "action", 3>>, <<6, "note", 2>> } }

\* A meeting whose analysis is stored, in a graph that is empty or holds the nodes of
\* other meetings, the meeting's graph being built by link-to-graph runs that any caller
\* starts, and the user deleting the meeting at any moment.
InitGraph ==
    /\ ClientIdle
    /\ exists = TRUE /\ status = "linking" /\ audio_path = "path"
    /\ transcripts = ParseTranscript(1, <<"spk", "plain">>)
    /\ \E raw \in RawTexts : /\ JsonParses(StripFences(raw))
                             /\ ReadsProperties(ParseAnalysis(raw))
                             /\ ParseAnalysis(raw).items = "array"
                             /\ \A i \in 1..Len(ParseAnalysis(raw).list) :
                                   ParseAnalysis(raw).list[i].priority = "high"
                             /\ meeting_notes = {NoteRow(ParseAnalysis(raw))}
                             /\ action_items = ActionRows(ParseAnalysis(raw).list)
                             /\ lastNote = NoteRow(ParseAnalysis(raw))
    /\ nodes \in {{}, OtherNodes} /\ edges = {}
    /\ runs = [r \in RunIds |-> NoRun] /\ nRuns = 0
    /\ writer = [stage |-> "analyze", kind |-> "run", retry |-> FALSE]
    /\ failedBy = "none"

LinkStep(r) ==
    \/ LinkFetch(r) \/ LinkRemoveOld(r) \/ LinkInsertNodes(r) \/ LinkInsertEdges(r)
    \/ LinkStatus(r) \/ LinkCatch(r)

NextGraph ==
    \/ DirectInvoke("link")
    \/ \E r \in RunIds : LinkStep(r)
    \/ \E r \in RunIds : Send(r)
    \/ DeleteMeeting

SpecGraph == InitGraph /\ [][NextGraph]_vars

\* C21: a deleteMeeting call that returns without error (the meetings row is gone)
\* leaves no node whose source reference is the meeting, no edge with an endpoint among
\* the meeting's former nodes, and no meetings row.
C21_DeleteLeavesNothing ==
    [][exists /\ ~exists' =>
          LET former == {n.id : n \in {m \in nodes : m.source_meeting_id = "M"}} IN
          /\ \A n \in nodes' : n.source_meeting_id # "M"
          /\ \A e \in edges' : e.from_node \notin former /\ e.to_node \notin former]_vars

\* C22: a request without a meeting_id (field missing, value empty, or body not
\* parseable) is answered 400 at once and changes nothing: the store stays as it is, no
\* status is written and no generation or embedding call is made for it.
C22_NoIdNoEffect ==
    [][\A r \in RunIds :
          (runs[r].body \in Bodies \ {"id"} \/ runs'[r].body \in Bodies \ {"id"}) =>
             /\ store' = store
             /\ runs'[r].pc \in {"resp", "sent"}
             /\ runs'[r].pc = "resp" => runs'[r].http = 400
             /\ ~runs'[r].genCalled /\ runs'[r].wrote = "none" /\ ~runs'[r].applied
             /\ runs'[r].rows = 0 /\ runs'[r].cand = << >>]_vars

C22_Witness ==
    \E r1, r2 \in RunIds :
        /\ runs[r1].body = "empty" /\ runs[r1].pc = "resp" /\ runs[r1].http = 400
        /\ runs[r1].stage = "analyze"
        /\ runs[r2].stage = "transcribe" /\ runs[r2].pc = "status"
        /\ status = "processing" /\ Len(transcripts) > 0

\* C23: a link run with N candidate nodes inserts at most MAX_RELATED * N edges: once
\* the edge list has reached that length nothing more is added, for the current node or
\* for any later one.
C23_EdgeCap ==
    [][\A r \in RunIds :
          runs[r].stage = "link" /\ runs[r].pc = "edges" /\ runs'[r].pc = "status" =>
             /\ runs'[r].rows <= MAX_RELATED * Len(runs[r].cand)
             /\ Cardinality(edges' \ edges) <= MAX_RELATED * Len(runs[r].cand)]_vars

\* C24: the relation of every edge follows from its endpoints: continues iff both are
\* meeting nodes, resolves iff both are decision nodes more similar than 0.85 (at exactly
\* 0.85 the relation is references), references otherwise; never contradicts.
C24_RelationRule ==
    \A e \in edges :
        \E a, b \in nodes :
            /\ a.id = e.from_node /\ b.id = e.to_node
            /\ e.relation # "contradicts"
            /\ e.relation = "continues" <=> (a.node_type = "meeting" /\ b.node_type = "meeting")
            /\ e.relation = "resolves" <=>
                  /\ a.node_type = "decision" /\ b.node_type = "decision"
                  /\ Similarity(a.embedding, b.embedding) > 85
            /\ e.relation = "references" <=>
                  /\ ~(a.node_type = "meeting" /\ b.node_type = "meeting")
                  /\ ~(/\ a.node_type = "decision" /\ b.node_type = "decision"
                       /\ Similarity(a.embedding, b.embedding) > 85)

C24_Witness ==
    \E e1, e2, e3, e4 \in edges :
        /\ e1.relation = "continues"
        /\ e2.relation = "resolves"
        /\ e3.relation = "references" /\ e3.strength = 85
        /\ \E a, b \in nodes : /\ a.id = e3.from_node /\ b.id = e3.to_node
                               /\ a.node_type = "decision" /\ b.node_type = "decision"
        /\ e4.relation = "references" /\ e4.strength = 100

\* C25: failed embed calls do not fail a link run.  The node insert still carries every
\* candidate, a candidate whose embed call failed with a null embedding; no edge starts
\* or ends at a node with a null embedding; and the run goes on to its status write
\* (done) and answers with success unless a store insert is rejected.
C25_EmbedFailureTolerated ==
    [][\A r \in RunIds : runs[r].stage = "link" =>
          /\ runs[r].pc = "nodes" /\ runs'[r].pc = "edges" =>
                /\ Len(runs'[r].inserted) = Len(runs[r].cand)
                /\ SeqToSet(runs'[r].inserted) \subseteq nodes'
                /\ \A i \in 1..Len(runs[r].cand) :
                      /\ runs'[r].inserted[i].node_type = runs[r].cand[i]
                      /\ runs'[r].inserted[i].embedding \in {0, EmbeddingOf(runs[r].cand[i])}
          /\ runs[r].pc = "edges" /\ runs'[r].pc # "edges" =>
                /\ \A e \in edges' \ edges :
                      /\ \A n \in nodes : n.id = e.from_node => n.embedding # 0
                      /\ \A n \in nodes : n.id = e.to_node => n.embedding # 0
                /\ runs'[r].pc = "status" \/ runs'[r].err = "Insert edges failed"
                /\ (\A i \in 1..Len(runs[r].inserted) : runs[r].inserted[i].embedding = 0)
                      => runs'[r].pc = "status" /\ edges' = edges
          /\ runs[r].pc = "status" /\ runs'[r].pc # "status" =>
                /\ runs'[r].pc = "resp" /\ runs'[r].http = 200 /\ runs'[r].wrote = "done"
                /\ runs'[r].applied => status' = "done"]_vars

C25_Witness ==
    \E r \in RunIds :
        /\ runs[r].stage = "link" /\ runs[r].pc = "resp" /\ runs[r].http = 200
        /\ runs[r].applied /\ status = "done" /\ runs[r].rows > 0
        /\ \E n, m \in nodes :
              /\ n.id \in (r * ID_STRIDE + 1)..(r * ID_STRIDE + 4) /\ n.embedding = 0
              /\ m.id \in (r * ID_STRIDE + 1)..(r * ID_STRIDE + 4) /\ m.embedding # 0
              /\ \E e \in edges : e.from_node = m.id
              /\ \A e \in edges : e.from_node # n.id /\ e.to_node # n.id

\* C26: a transcription run that obtained a remote file handle on the large-file path
\* has issued the delete of that file by the time it responds, whether it responds with
\* success or with a failure.
C26_RemoteFileDeleted ==
    \A r \in RunIds :
        runs[r].stage = "transcribe" /\ runs[r].pc = "resp" /\ runs[r].fileUri
            => runs[r].cleaned

\* ------------------------------------------------- transcribe-meeting, await by await
\* The transfer part of the handler in smaller steps: the upload, each readiness poll of
\* the uploaded file, and the generation call with the parsing and the insert.

\* lines 45-107: download; above the limit the resumable upload, else inline encoding
TranscribeUpload(r) ==
    /\ Quiet
    /\ runs[r].stage = "transcribe" /\ runs[r].pc = "work"
    /\ \E len \in AudioSizes :
          \/ \E cause \in TransferFailures(len) \ {"Gemini failed"} :
                runs' = [runs EXCEPT ![r].pc = "catch", ![r].err = cause,
                                     ![r].len = IF cause = "Download failed" THEN 0 ELSE len]
          \/ IF UsesFileApi(len)
             THEN \E hasName \in BOOLEAN :
                     runs' = [runs EXCEPT ![r].pc = IF hasName THEN "poll" ELSE "generate",
                                          ![r].len = len, ![r].fileUri = TRUE]
             ELSE runs' = [runs EXCEPT ![r].pc = "generate", ![r].len = len,
                                       ![r].audioBase64 = TRUE]
    /\ UNCHANGED <<store, nRuns, client, hist>>

\* what one readiness request may come to: the file is ACTIVE, it is in another state,
\* the response is not ok, or the fetch rejects
PollAnswers == {"ACTIVE", "PROCESSING", "notok", "rejects"}

\* alternative: a loop that goes on polling after ACTIVE
PollStepNoBreak(r) ==
    /\ Quiet
    /\ runs[r].stage = "transcribe" /\ runs[r].pc = "poll"
    /\ \E answer \in PollAnswers :
          IF answer = "rejects"
          THEN runs' = [runs EXCEPT ![r].pc = "catch", ![r].err = "Poll failed",
                                    ![r].polls = runs[r].polls + 1]
          ELSE runs' = [runs EXCEPT ![r].polls = runs[r].polls + 1,
                                    ![r].fileState = answer,
                                    ![r].pc = IF runs[r].polls + 1 < POLL_LIMIT
                                              THEN "poll" ELSE "generate"]
    /\ UNCHANGED <<store, nRuns, client, hist>>

\* lines 109-126: one pass of for (let i = 0; i < 30; i++)
PollStep(r) ==
    /\ Quiet
    /\ runs[r].stage = "transcribe" /\ runs[r].pc = "poll"
    /\ \E answer \in PollAnswers :
          IF answer = "rejects"
          THEN runs' = [runs EXCEPT ![r].pc = "catch", ![r].err = "Poll failed",
                                    ![r].polls = runs[r].polls + 1]
          ELSE IF answer = "ACTIVE"
          THEN runs' = [runs EXCEPT ![r].pc = "generate", ![r].fileState = "ACTIVE",
                                    ![r].polls = runs[r].polls + 1]
          ELSE runs' = [runs EXCEPT ![r].polls = runs[r].polls + 1,
                                    ![r].fileState = answer,
                                    ![r].pc = IF runs[r].polls + 1 < POLL_LIMIT
                                              THEN "poll" ELSE "generate"]
    /\ UNCHANGED <<store, nRuns, client, hist>>

\* lines 137-207: generation call, parsing, batch insert
TranscribeGenerate(r) ==
    /\ Quiet
    /\ runs[r].stage = "transcribe" /\ runs[r].pc = "generate"
    /\ \/ /\ runs' = [runs EXCEPT ![r].pc = "catch", ![r].err = "Gemini failed",
                                  ![r].genCalled = TRUE]
          /\ UNCHANGED transcripts
       \/ \E text \in Transcripts, insertOk \in StoreAnswers :
             IF insertOk /\ exists
             THEN LET segments == ParseTranscript(Cardinality(Batches(transcripts)) + 1, text)
                  IN /\ transcripts' = transcripts \o segments
                     /\ runs' = [runs EXCEPT ![r].pc = "status", ![r].genCalled = TRUE,
                                             ![r].rows = Len(segments)]
             ELSE /\ UNCHANGED transcripts
                  /\ runs' = [runs EXCEPT ![r].pc = "catch", ![r].err = "Insert failed",
                                          ![r].genCalled = TRUE]
    /\ UNCHANGED <<exists, status, audio_path, meeting_notes, action_items, nodes, edges,
                   nRuns, client, hist>>

NextPoll ==
    \/ DirectInvoke("transcribe")
    \/ \E r \in RunIds : TranscribeFetch(r)
    \/ \E r \in RunIds : TranscribeUpload(r)
    \/ \E r \in RunIds : PollStep(r)
    \/ \E r \in RunIds : TranscribeGenerate(r)
    \/ \E r \in RunIds : TranscribeStatus(r)
    \/ \E r \in RunIds : TranscribeCatch(r)
    \/ \E r \in RunIds : Send(r)

SpecPoll == InitStage /\ [][NextPoll]_vars

\* C27: the readiness loop issues at most 30 requests, every pass of the loop counts
\* one request so that the loop ends, no request follows one that reported ACTIVE, and
\* the generation call is issued only after the loop has ended.
C27_PollLoopBounded ==
    [][\A r \in RunIds :
          /\ runs'[r].polls <= 30
          /\ runs'[r].pc = "poll" => runs'[r].polls < 30 /\ runs'[r].fileState # "ACTIVE"
          /\ runs[r].pc = "poll" /\ runs'[r] # runs[r] => runs'[r].polls = runs[r].polls + 1
          /\ runs'[r].genCalled => runs'[r].pc \notin {"work", "poll"}
          /\ runs'[r].genCalled /\ runs'[r].polls > 0 =>
                runs'[r].fileState = "ACTIVE" \/ runs'[r].polls = 30]_vars

C27_Witness ==
    \E r1, r2 \in RunIds :
        /\ runs[r1].genCalled /\ runs[r1].polls = 30 /\ runs[r1].fileState = "PROCESSING"
        /\ runs[r2].genCalled /\ runs[r2].polls = 2 /\ runs[r2].fileState = "ACTIVE"

\* C28: one trigger of a stage calls the endpoint at most 3 times: every call is one
\* numbered attempt, the number never passes 3 and only grows; the trigger ends with
\* success only on a 2xx response and then makes no further attempt; after a non-2xx
\* response or a network error it tries again while attempts are left, and reports
\* failure only after the third attempt.
C28_BoundedRetry ==
    [][\A t \in TrigIds :
          /\ trig'[t].attempt <= 3
          /\ nRuns' > nRuns /\ runs'[nRuns'].trig = t =>
                /\ trig[t].pc = "call" /\ trig'[t].pc = "wait"
                /\ trig'[t].attempt = trig[t].attempt /\ trig'[t].run = nRuns'
          /\ trig[t].pc = "end" => trig'[t].pc = "end"
          /\ trig[t].pc \in {"call", "wait"} /\ trig'[t].pc = "call" /\ trig'[t] # trig[t] =>
                trig'[t].attempt = trig[t].attempt + 1
          /\ trig[t].pc = "wait" /\ trig'[t].pc = "end" =>
                runs[trig[t].run].pc = "sent" /\ runs[trig[t].run].http = 200
          /\ trig[t].pc = "wait" /\ trig'[t].pc # "wait" /\ runs[trig[t].run].http # 200 =>
                trig'[t].pc = (IF trig[t].attempt < 3 THEN "call" ELSE "fallback")
          /\ trig[t].pc = "call" /\ trig'[t].pc \notin {"call", "wait"} =>
                trig'[t].pc = "fallback"
          /\ trig'[t].pc = "fallback" /\ trig[t].pc # "fallback" => trig[t].attempt = 3]_vars

C28_Witness ==
    \E t \in TrigIds :
        /\ trig[t].pc = "wait" /\ trig[t].attempt = 3
        /\ runs[trig[t].run].pc = "sent" /\ runs[trig[t].run].http = 200
        /\ \E r \in RunIds : r # trig[t].run /\ runs[r].pc = "sent"

\* C29: a successful analysis run appends its n action items to the rows already there
\* and no step removes or rewrites a row, so k successful runs leave n_1 + ... + n_k
\* action items; the meeting has exactly one note once a run has saved its note.
C29_ActionItemsAccumulate ==
    [][/\ Len(action_items') >= Len(action_items)
       /\ SubSeq(action_items', 1, Len(action_items)) = action_items
       /\ Cardinality(meeting_notes') <= 1
       /\ \A r \in RunIds : runs[r].stage = "analyze" =>
             /\ (runs[r].pc = "actions" /\ runs'[r].pc = "status"
                 /\ runs[r].analysis.items = "array") =>
                   Len(action_items') = Len(action_items) + Len(runs[r].analysis.list)
             /\ runs'[r].pc \in {"actions", "status"} => Cardinality(meeting_notes') = 1
             /\ runs'[r].pc = "resp" /\ runs'[r].http = 200 => Cardinality(meeting_notes') = 1
       /\ action_items' # action_items =>
             \E r \in RunIds : /\ runs[r].stage = "analyze" /\ runs[r].pc = "actions"
                               /\ runs'[r].pc = "status"]_vars

C29_Witness ==
    /\ Len(action_items) = 2 /\ action_items[1] # action_items[2]
    /\ Cardinality(meeting_notes) = 1
    /\ \E r \in RunIds : /\ runs[r].stage = "analyze" /\ runs[r].pc = "resp"
                         /\ runs[r].http = 200
    /\ \E r \in RunIds : runs[r].pc = "sent"

\* C30: the candidate list of a link run holds exactly one meeting node, one note node
\* iff the meeting's note has a summary, one decision node per decision of the note and
\* one action node per action item of the meeting, so 1 + [summary] + |decisions| +
\* |action items| candidates; every node inserted from it refers to the meeting.
C30_CandidateList ==
    [][\A r \in RunIds : runs[r].stage = "link" =>
          /\ runs[r].pc = "fetch" /\ runs'[r].pc = "remove" =>
                LET cand == runs'[r].cand
                    Count(ty) == Cardinality({i \in 1..Len(cand) : cand[i] = ty})
                    hasSummary == \E n \in meeting_notes : n.summary > 0
                    decisions == IF meeting_notes = {} THEN 0
                                 ELSE (CHOOSE n \in meeting_notes : TRUE).decisions
                IN /\ Count("meeting") = 1
                   /\ Count("note") = (IF hasSummary THEN 1 ELSE 0)
                   /\ Count("decision") = decisions
                   /\ Count("action") = Len(action_items)
                   /\ Len(cand) = 1 + (IF hasSummary THEN 1 ELSE 0) + decisions
                                    + Len(action_items)
          /\ runs[r].pc = "nodes" /\ runs'[r].pc = "edges" =>
                \A i \in 1..Len(runs'[r].inserted) :
                    runs'[r].inserted[i].source_meeting_id = "M"]_vars

\* C31: the screen starts only the stage that matches the status it has just read
\* (processing: transcription, analyzing: analysis, linking: linking; nothing for
\* recording, done or failed), and while Retry has not been pressed it starts each stage
\* at most once.
C31_DispatchOncePerStage ==
    [][nTrig' > nTrig /\ retries' = retries =>
          /\ seen' = status
          /\ trig'[nTrig'].stage =
                (CASE status = "processing" -> "transcribe"
                   [] status = "analyzing" -> "analyze"
                   [] status = "linking" -> "link"
                   [] OTHER -> "none")
          /\ retries = 0 => \A t \in 1..nTrig : trig[t].stage # trig'[nTrig'].stage]_vars

\* C32: an analysis run that answers with a failure has written neither the note nor
\* any action item.
C32_FailedAnalysisWritesNothing ==
    \A r \in RunIds :
        runs[r].stage = "analyze" /\ runs[r].pc = "resp" /\ runs[r].http \notin {0, 200}
            => runs[r].rows = 0

\* ------------------------------------------------- linking runs one after another
\* nodes of a meeting of another user, near the nodes of the user's meetings
StrangerNodes ==
    { [id |-> 7, node_type |-> "meeting", source_meeting_id |-> "foreign", user_id |-> "v",
       embedding |-> 1],
      [id |-> 8, node_type |-> "decision", source_meeting_id |-> "foreign", user_id |-> "v",
       embedding |-> 2] }

\* as InitGraph, in a graph that may also hold the nodes of another user
InitSeq ==
    /\ ClientIdle
    /\ exists = TRUE /\ status = "linking" /\ audio_path = "path"
    /\ transcripts = ParseTranscript(1, <<"spk", "plain">>)
    /\ \E raw \in RawTexts : /\ JsonParses(StripFences(raw))
                             /\ ReadsProperties(ParseAnalysis(raw))
                             /\ ParseAnalysis(raw).items = "array"
                             /\ \A i \in 1..Len(ParseAnalysis(raw).list) :
                                   ParseAnalysis(raw).list[i].priority = "high"
                             /\ meeting_notes = {NoteRow(ParseAnalysis(raw))}
                             /\ action_items = ActionRows(ParseAnalysis(raw).list)
                             /\ lastNote = NoteRow(ParseAnalysis(raw))
    /\ nodes \in {{}, OtherNodes, StrangerNodes, OtherNodes \cup StrangerNodes}
    /\ edges = {}
    /\ runs = [r \in RunIds |-> NoRun] /\ nRuns = 0
    /\ writer = [stage |-> "analyze", kind |-> "run", retry |-> FALSE]
    /\ failedBy = "none"

Meetings == {"M", "other"}

\* any caller invoking link-to-graph with the id of one of the user's meetings, lines
\* 21-31 of the handler; max bounds the number of invocations
InvokeLink(m, max) ==
    /\ Quiet
    /\ nRuns < max
    /\ nRuns' = nRuns + 1
    /\ runs' = [runs EXCEPT ![nRuns + 1] =
                  [NoRun EXCEPT !.stage = "link", !.pc = "fetch", !.body = "id",
                                !.meeting_id = m]]
    /\ UNCHANGED <<store, client, hist>>

\* no invocation is being served
NoneActive == \A q \in RunIds : runs[q].pc \in {"free", "sent"}

\* Linking runs for either meeting and deletions of the meeting, each started only
\* when the one before it has ended.
NextSeq ==
    \/ NoneActive /\ \E m \in Meetings : InvokeLink(m, MaxRuns)
    \/ \E r \in RunIds : LinkStep(r)
    \/ \E r \in RunIds : Send(r)
    \/ NoneActive /\ DeleteMeeting

SpecSeq == InitSeq /\ [][NextSeq]_vars

\* C33: when linking runs and deletions follow one another without overlapping, no two
\* stored edges join the same unordered pair of nodes.
C33_StoredEdgesOnePerPair ==
    \A e \in edges, f \in edges :
        {e.from_node, e.to_node} = {f.from_node, f.to_node} => e = f

\* a later run has ended, having linked one of its nodes to a node an earlier run
\* inserted and two of its own nodes to each other
C33_Witness ==
    /\ nRuns >= 2 /\ NoneActive
    /\ \E e \in edges : e.from_node > 2 * ID_STRIDE /\ e.to_node > ID_STRIDE
                        /\ e.to_node < 2 * ID_STRIDE
    /\ \E e \in edges : e.from_node > 2 * ID_STRIDE /\ e.to_node > 2 * ID_STRIDE

\* ------------------------------------------------- deleteMeeting, await by await
\* the user calling deleteMeeting(id) for the meeting; the call is kept as a run of
\* stage "delete" whose nodeIds are the ids its select returned
CallDeleteMeeting ==
    /\ Quiet
    /\ exists
    /\ nRuns < MaxRuns
    /\ nRuns' = nRuns + 1
    /\ runs' = [runs EXCEPT ![nRuns + 1] = [NoRun EXCEPT !.stage = "delete", !.pc = "fetch"]]
    /\ UNCHANGED <<store, client, hist>>

\* meetingService.ts lines 81-93: select the audio path, select the ids of the
\* meeting's nodes (data is null on an error); the deletes are skipped without ids
DeleteSelect(r) ==
    /\ Quiet
    /\ runs[r].stage = "delete" /\ runs[r].pc = "fetch"
    /\ \E selOk \in StoreAnswers :
          LET ids == IF selOk THEN {n.id : n \in {m \in nodes : m.source_meeting_id = "M"}}
                     ELSE {}
          IN runs' = [runs EXCEPT ![r].nodeIds = ids,
                                  ![r].pc = IF ids # {} THEN "edgesFrom" ELSE "row"]
    /\ UNCHANGED <<store, nRuns, client, hist>>

\* line 94: delete the edges leaving the selected nodes; result unchecked
DeleteEdgesFrom(r) ==
    /\ Quiet
    /\ runs[r].stage = "delete" /\ runs[r].pc = "edgesFrom"
    /\ \E ok \in StoreAnswers :
          edges' = IF ok THEN {e \in edges : e.from_node \notin runs[r].nodeIds} ELSE edges
    /\ runs' = [runs EXCEPT ![r].pc = "edgesTo"]
    /\ UNCHANGED <<exists, status, audio_path, transcripts, meeting_notes, action_items, nodes,
                   nRuns, client, hist>>

\* line 95: delete the edges entering the selected nodes; result unchecked
DeleteEdgesTo(r) ==
    /\ Quiet
    /\ runs[r].stage = "delete" /\ runs[r].pc = "edgesTo"
    /\ \E ok \in StoreAnswers :
          edges' = IF ok THEN {e \in edges : e.to_node \notin runs[r].nodeIds} ELSE edges
    /\ runs' = [runs EXCEPT ![r].pc = "nodes"]
    /\ UNCHANGED <<exists, status, audio_path, transcripts, meeting_notes, action_items, nodes,
                   nRuns, client, hist>>

\* line 96: delete the nodes whose source is the meeting; result unchecked
DeleteNodes(r) ==
    /\ Quiet
    /\ runs[r].stage = "delete" /\ runs[r].pc = "nodes"
    /\ \E ok \in StoreAnswers :
          LET gone == IF ok THEN {n.id : n \in {m \in nodes : m.source_meeting_id = "M"}}
                      ELSE {}
          IN /\ nodes' = {n \in nodes : n.id \notin gone}
             \* edges.from_node / to_node reference nodes(id) on delete cascade
             /\ edges' = {e \in edges : e.from_node \notin gone /\ e.to_node \notin gone}
    /\ runs' = [runs EXCEPT ![r].pc = "row"]
    /\ UNCHANGED <<exists, status, audio_path, transcripts, meeting_notes, action_items,
                   nRuns, client, hist>>

\* lines 99-108: remove the audio, delete the meetings row (throw on an error); the
\* rows that reference the meeting go with it, nodes.source_meeting_id is set null
DeleteRow(r) ==
    /\ Quiet
    /\ runs[r].stage = "delete" /\ runs[r].pc = "row"
    /\ \E ok \in StoreAnswers :
          IF ok /\ exists
          THEN /\ exists' = FALSE /\ status' = "recording" /\ audio_path' = "null"
               /\ transcripts' = << >> /\ meeting_notes' = {} /\ action_items' = << >>
               /\ nodes' = {IF n.source_meeting_id = "M"
                            THEN [n EXCEPT !.source_meeting_id = "null"] ELSE n : n \in nodes}
          ELSE UNCHANGED <<exists, status, audio_path, transcripts, meeting_notes,
                           action_items, nodes>>
    /\ runs' = [runs EXCEPT ![r] = [NoRun EXCEPT !.pc = "sent"]]
    /\ UNCHANGED <<edges, nRuns, client, hist>>

DeleteStep(r) ==
    \/ DeleteSelect(r) \/ DeleteEdgesFrom(r) \/ DeleteEdgesTo(r) \/ DeleteNodes(r)
    \/ DeleteRow(r)

\* Linking runs for either meeting and deleteMeeting calls for the meeting, started at
\* any moment and interleaved at every await.
NextRace ==
    \/ \E m \in Meetings : InvokeLink(m, MaxRuns)
    \/ CallDeleteMeeting
    \/ \E r \in RunIds : LinkStep(r)
    \/ \E r \in RunIds : DeleteStep(r)
    \/ \E r \in RunIds : Send(r)

SpecRace == InitGraph /\ [][NextRace]_vars

\* C34: while linking runs for the two meetings are in flight together, no two stored
\* edges join the same unordered pair of nodes.
C34_InterleavedOnePerPair ==
    (\E r \in RunIds, q \in RunIds :
        /\ runs[r].stage = "link" /\ runs[q].stage = "link"
        /\ runs[r].meeting_id = "M" /\ runs[q].meeting_id = "other")
    => \A e \in edges, f \in edges :
          e # f => {e.from_node, e.to_node} # {f.from_node, f.to_node}

C36_EdgesFromOwnNodes ==
    [][\A r \in RunIds :
          runs[r].stage = "link" /\ runs[r].pc = "edges" /\ runs'[r].pc # "edges" =>
             \A e \in edges' \ edges :
                /\ \E i \in 1..Len(runs[r].inserted) : runs[r].inserted[i].id = e.from_node
                /\ e.from_node # e.to_node
                /\ \A n \in nodes, m \in nodes :
                      n.id = e.from_node /\ m.id = e.to_node => n.user_id = m.user_id]_vars

\* a run that has stored edges in a graph holding another user's nodes within the
\* similarity threshold of its own
C36_Witness ==
    /\ StrangerNodes \subseteq nodes
    /\ \E r \in RunIds : /\ runs[r].stage = "link" /\ runs[r].pc = "status"
                          /\ runs[r].edgeInsert /\ runs[r].rows > 0
                          /\ \E e \in edges : e.from_node > r * ID_STRIDE
                                               /\ e.from_node < (r + 1) * ID_STRIDE

\* C37: when a linking run sets the meeting's status to done, a node of type meeting
\* whose source is the meeting is stored.
C37_DoneHasMeetingNode ==
    [][\A r \in RunIds :
          (/\ runs[r].stage = "link" /\ runs[r].pc \in {"status", "catch"}
           /\ runs'[r].pc = "resp" /\ runs'[r].wrote = "done" /\ runs'[r].applied)
          => \E n \in nodes' : n.node_type = "meeting" /\ n.source_meeting_id = "M"]_vars

\* C38: with the shipped client, a status of processing, analyzing, linking or done
\* goes with a stored audio path, and a recording screen whose upload or status write
\* failed leaves the meeting in recording.
C38_StatusNeedsAudio ==
    /\ status \in {"processing", "analyzing", "linking", "done"} => audio_path # "null"
    /\ screen = "aborted" /\ audio_path = "null" => status = "recording"

\* the upload succeeded, the path and the status were written, and a later stage has
\* moved the status on
C38_Witness == status = "linking" /\ audio_path = "path" /\ screen = "processing"

\* The same interleavings with the store accepting every call on the relational
\* tables: the user is on the meeting screen of a processed meeting and deletes it while
\* linking runs that any caller started are in flight.
InitRaceCalm ==
    /\ screen = "meeting" /\ seen = "done"
    /\ transcriptionTriggered = TRUE /\ analysisTriggered = TRUE /\ linkingTriggered = TRUE
    /\ trig = [t \in TrigIds |-> NoTrig] /\ nTrig = 0 /\ retries = 0
    /\ exists = TRUE /\ status = "done" /\ audio_path = "path"
    /\ transcripts = ParseTranscript(1, <<"spk", "plain">>)
    /\ \E raw \in RawTexts : /\ JsonParses(StripFences(raw))
                             /\ ReadsProperties(ParseAnalysis(raw))
                             /\ meeting_notes = {NoteRow(ParseAnalysis(raw))}
                             /\ action_items = ActionRows(ParseAnalysis(raw).list)
                             /\ lastNote = NoteRow(ParseAnalysis(raw))
    /\ nodes \in {{}, OtherNodes} /\ edges = {}
    /\ runs = [r \in RunIds |-> NoRun] /\ nRuns = 0
    /\ writer = [stage |-> "link", kind |-> "run", retry |-> FALSE]
    /\ failedBy = "none"

SpecRaceCalm == InitRaceCalm /\ [][NextRace]_vars

\* C39: when a deleteMeeting call and a linking run for the meeting have both ended and
\* the meetings row is gone, no node inserted by a linking run for the meeting and no
\* edge with such a node as endpoint is stored.
C39_DeleteDuringLinkLeavesNothing ==
    (/\ ~exists /\ NoneActive)
    => /\ \A n \in nodes : n.source_meeting_id \in {"other", "foreign"}
       /\ \A e \in edges : \A n \in nodes :
             n.id \in {e.from_node, e.to_node} => n.source_meeting_id \in {"other", "foreign"}

====
